---- MODULE Spec2Model ----
(***************************************************************************)
(* A model of the streaming core of kagi_client: the SSE framer            *)
(* (streams.py), and the reducers built on the two framers (assistant.py,  *)
(* summarizer.py, proofread.py, search.py).                                *)
(*                                                                         *)
(* Text is a sequence of lexemes.  A lexeme is a string: the newline, the  *)
(* space, a field prefix such as "data:", or a piece of other content.     *)
(* A str | None value of the code is a lexeme sequence, or None.           *)
(***************************************************************************)
EXTENDS Integers, Sequences, FiniteSets, TLC

VARIABLES
    \* parse_sse_events (streams.py)
    sse_text,        \* the argument `text`
    sse_i,           \* index of the next element of text.split("\n")
    current_event,   \* str | None
    current_data,    \* list[str]
    current_id,      \* str | None
    events,          \* list[SSEEvent]
    sse_pc,          \* "idle" | "loop" | "done"
    \* AssistantClient.prompt_stream (assistant.py)
    ps_lines,        \* the raw lines resp.aiter_lines() has delivered so far
    prev_text,       \* the last snapshot yielded, "" at first
    ps_yielded,      \* the snapshots the generator has yielded, in order
    ps_error,        \* the exception raised, None when there is none
    ps_pc,           \* "idle" | "request" | "streaming" | "done" | "raised"
    \* SearchClient.search_all (search.py)
    sa_requests,     \* the batch parameter of every request sent, in order
    sa_served,       \* the pages the server has answered with, in order
    sa_result,       \* the local `result`
    sa_yielded,      \* the results yielded to the consumer, in order
    sa_error,        \* the exception raised, if any
    sa_pc,           \* "idle" | "start" | "await" | "yielded" | "done" | "closed" | "raised"
    \* SummarizerClient.summarize and summarize_stream (summarizer.py)
    sum_lines,       \* parse_kagi_stream_lines(resp.text)
    sum_result,      \* the SummaryResult summarize returned
    sum_i,           \* summarize_stream: index of the next line
    sum_updates,     \* summarize_stream: the SummaryUpdates yielded, in order
    sum_error,       \* the exception raised, if any
    sum_pc,          \* "idle" | "request" | "response" | "returned" | "raised"
                     \* | "streaming" | "exhausted" | "stream_raised"
    \* AssistantClient.prompt, _parse_assistant_response (assistant.py)
    as_lines,        \* parse_kagi_stream_lines(response_text)
    as_i,            \* index of the next line of the fold
    as_thread,       \* AssistantThread | None
    as_message,      \* AssistantMessage | None
    as_error,        \* the exception raised, if any
    as_pc,           \* "idle" | "request" | "fold" | "returned" | "raised"
    \* ProofreadClient.proofread, _parse_proofread_response (proofread.py)
    pr_events,       \* parse_sse_events(response_text)
    pr_i,            \* index of the next event of the fold
    detected_language,  \* DetectedLanguage | None
    text_parts,      \* list[str]
    analysis,        \* ProofreadAnalysis | None
    pr_result,       \* the ProofreadResult returned
    pr_error,        \* the exception raised, if any
    pr_pc,           \* "idle" | "request" | "fold" | "returned" | "raised"
    \* parse_kagi_stream_lines (streams.py)
    kl_text,         \* the text given
    kl_i,            \* i, as an index from 1
    kl_tag,          \* tag of the frame being collected
    payload_parts,   \* payload_parts of the frame being collected
    kl_lines,        \* lines: list[KagiStreamLine]
    kl_pc,           \* "idle" | "outer" | "inner" | "done"
    \* the streaming entry points and their transport: prompt_stream
    \* (assistant.py), summarize_stream (summarizer.py), proofread_stream
    \* (proofread.py)
    st_entry,        \* the entry point called
    st_wire,         \* the frames of the response body that have arrived so far
    st_complete,     \* the response body is complete
    st_yielded,      \* the frames whose update the generator has yielded
    st_pc,           \* "idle" | "request" | "iterating" | "done"
    \* the request of a capability call: _request of each client, and the
    \* client.stream of prompt_stream
    rq_entry,        \* the capability called
    rq_requests,     \* the number of requests sent to the capability endpoint
    rq_status,       \* resp.status_code, 0 before the response
    rq_body,         \* resp.text, as the frames it holds
    rq_frames,       \* the number of frames of the body parsed or yielded
    rq_error,        \* the exception raised, if any
    rq_pc,           \* "idle" | "send" | "wait" | "status" | "fold" | "done" | "raised"
    \* _parse_search_items (search.py)
    it_html,         \* html
    blocks,          \* blocks: list[str]
    it_k,            \* index of the next block of the loop
    items,           \* items: list[SearchItem]
    it_pc,           \* "idle" | "split" | "loop" | "done"
    \* SearchClient.search, _parse_search_response (search.py)
    sr_events,       \* parse_sse_events(response_text)
    sr_i,            \* index of the next event of the fold
    search_html_parts,  \* list[str]
    info,            \* SearchInfo | None
    domain_infos,    \* list[DomainInfo]
    sr_result,       \* the SearchResult returned
    sr_error,        \* the exception raised, if any
    sr_pc,           \* "idle" | "request" | "fold" | "returned" | "raised"
    \* KagiAuth (auth.py) and the token step of ProofreadClient._request
    au_entry,        \* the method called: "get_valid_token" | "proofread"
    token,           \* self._token: the cached token, or None
    au_at_call,      \* self._token as it was when the call began
    au_now,          \* time.time() of the call, in half seconds
    au_refreshes,    \* requests sent to the token endpoint during the call
    au_status,       \* status of the token endpoint's answer, 0 before it
    au_served,       \* the token of the token endpoint's answer
    au_returned,     \* the token get_valid_token returned
    au_posts,        \* proofread requests sent during the call
    au_error,        \* class of the exception raised, if any
    au_pc,           \* "idle" | "call" | "refreshing" | "answered" | "got_token" | "done" | "raised"
    \* parse_sse_events applied to a text and again to one of its frames
    \* written back as lines
    rf_text,         \* the text framed first
    rf_frames,       \* parse_sse_events(rf_text)
    rf_n,            \* the frame written back, 0 before the choice
    rf_again,        \* parse_sse_events of the lines written back
    rf_pc,           \* "idle" | "start" | "framed" | "reframed"
    \* one line given to the two classifiers of the proprietary format
    cl_line,         \* the line
    cl_batch,        \* what parse_kagi_stream_lines makes of it: m of _TAG_RE.match(raw)
    cl_single,       \* parse_kagi_stream_line(line)
    cl_pc,           \* "idle" | "start" | "one" | "done"
    \* concurrent proofread calls on one KagiClient: the cache of its KagiAuth,
    \* shared, and the state of each call, a function of the call
    cc_token,        \* KagiAuth._token, shared by the calls
    cc_granted,      \* the tokens the token endpoint has answered with 200
    cc_now,          \* time.time(), in half seconds
    cc_session,      \* per call: token, the local of ProofreadClient._request
    cc_events,       \* per call: events, the frames of the call's response
    cc_i,            \* per call: position of the for loop
    cc_locals,       \* per call: detected_language, text_parts, analysis
    cc_result,       \* per call: the ProofreadResult returned
    cc_error,        \* per call: the exception raised, if any
    cc_pc            \* per call: "idle" | "token" | "refreshing" | "post" |
                     \* "await" | "fold" | "returned" | "raised"

sseVars == <<sse_text, sse_i, current_event, current_data, current_id, events, sse_pc>>
psVars == <<ps_lines, prev_text, ps_yielded, ps_error, ps_pc>>
saVars == <<sa_requests, sa_served, sa_result, sa_yielded, sa_error, sa_pc>>
sumVars == <<sum_lines, sum_result, sum_i, sum_updates, sum_error, sum_pc>>
asVars == <<as_lines, as_i, as_thread, as_message, as_error, as_pc>>
prVars == <<pr_events, pr_i, detected_language, text_parts, analysis, pr_result, pr_error, pr_pc>>
klVars == <<kl_text, kl_i, kl_tag, payload_parts, kl_lines, kl_pc>>
stVars == <<st_entry, st_wire, st_complete, st_yielded, st_pc>>
rqVars == <<rq_entry, rq_requests, rq_status, rq_body, rq_frames, rq_error, rq_pc>>
itVars == <<it_html, blocks, it_k, items, it_pc>>
srVars == <<sr_events, sr_i, search_html_parts, info, domain_infos, sr_result, sr_error, sr_pc>>
auVars == <<au_entry, token, au_at_call, au_now, au_refreshes, au_status, au_served, au_returned, au_posts, au_error, au_pc>>
rfVars == <<rf_text, rf_frames, rf_n, rf_again, rf_pc>>
clVars == <<cl_line, cl_batch, cl_single, cl_pc>>
ccVars == <<cc_token, cc_granted, cc_now, cc_session, cc_events, cc_i, cc_locals, cc_result, cc_error, cc_pc>>

vars == <<sseVars, psVars, saVars, sumVars, asVars, prVars, klVars, stVars, rqVars, itVars, srVars, auVars, rfVars, clVars, ccVars>>

\* what each component leaves alone
NotSse == <<psVars, saVars, sumVars, asVars, prVars, klVars, stVars, rqVars, itVars, srVars, auVars, rfVars, clVars, ccVars>>
NotPs == <<sseVars, saVars, sumVars, asVars, prVars, klVars, stVars, rqVars, itVars, srVars, auVars, rfVars, clVars, ccVars>>
NotSa == <<sseVars, psVars, sumVars, asVars, prVars, klVars, stVars, rqVars, itVars, srVars, auVars, rfVars, clVars, ccVars>>
NotSum == <<sseVars, psVars, saVars, asVars, prVars, klVars, stVars, rqVars, itVars, srVars, auVars, rfVars, clVars, ccVars>>
NotAs == <<sseVars, psVars, saVars, sumVars, prVars, klVars, stVars, rqVars, itVars, srVars, auVars, rfVars, clVars, ccVars>>
NotPr == <<sseVars, psVars, saVars, sumVars, asVars, klVars, stVars, rqVars, itVars, srVars, auVars, rfVars, clVars, ccVars>>
NotKl == <<sseVars, psVars, saVars, sumVars, asVars, prVars, stVars, rqVars, itVars, srVars, auVars, rfVars, clVars, ccVars>>
NotSt == <<sseVars, psVars, saVars, sumVars, asVars, prVars, klVars, rqVars, itVars, srVars, auVars, rfVars, clVars, ccVars>>
NotRq == <<sseVars, psVars, saVars, sumVars, asVars, prVars, klVars, stVars, itVars, srVars, auVars, rfVars, clVars, ccVars>>
NotIt == <<sseVars, psVars, saVars, sumVars, asVars, prVars, klVars, stVars, rqVars, srVars, auVars, rfVars, clVars, ccVars>>
NotSr == <<sseVars, psVars, saVars, sumVars, asVars, prVars, klVars, stVars, rqVars, itVars, auVars, rfVars, clVars, ccVars>>
NotAu == <<sseVars, psVars, saVars, sumVars, asVars, prVars, klVars, stVars, rqVars, itVars, srVars, rfVars, clVars, ccVars>>
NotRf == <<sseVars, psVars, saVars, sumVars, asVars, prVars, klVars, stVars, rqVars, itVars, srVars, auVars, clVars, ccVars>>
NotCl == <<sseVars, psVars, saVars, sumVars, asVars, prVars, klVars, stVars, rqVars, itVars, srVars, auVars, rfVars, ccVars>>
NotCc == <<sseVars, psVars, saVars, sumVars, asVars, prVars, klVars, stVars, rqVars, itVars, srVars, auVars, rfVars, clVars>>

-----------------------------------------------------------------------------
(* Bounds of the model *)

MaxSseText == 5
MaxPsLines == 4
MaxPages == 4
MaxBatch == 3
MaxSumLines == 3
MaxAsLines == 4
MaxPrEvents == 4
MaxKlText == 6
MaxWire == 3
MaxBodyFrames == 2
MaxHtml == 4
MaxSrEvents == 3
MaxExp == 3
MaxNow == 6
MaxRfText == 5
MaxClLine == 4
MaxCalls == 2
MaxCcEvents == 1
MaxCcExp == 1
MaxCcNow == 2

-----------------------------------------------------------------------------
(* Strings *)

NL == "\n"
SP == " "

\* Python's None, distinct from every string (no lexeme is "<None>").
None == <<"<None>">>

\* s[a..b], empty when a > b
Slice(s, a, b) == [k \in 1..(b - a + 1) |-> s[a + k - 1]]

\* str.startswith for a one-lexeme prefix
startswith(line, prefix) == Len(line) >= 1 /\ line[1] = prefix

RECURSIVE lstrip(_)
lstrip(s) == IF s # <<>> /\ s[1] = SP THEN lstrip(Tail(s)) ELSE s

RECURSIVE rstrip(_)
rstrip(s) == IF s # <<>> /\ s[Len(s)] = SP THEN rstrip(Slice(s, 1, Len(s) - 1)) ELSE s

\* str.strip(): all leading and all trailing whitespace removed
strip(s) == rstrip(lstrip(s))

\* text.split("\n"): always at least one element; a text ending in a newline
\* gives a last element that is the empty string
RECURSIVE split(_)
split(text) ==
    IF \A k \in 1..Len(text) : text[k] # NL
    THEN <<text>>
    ELSE LET p == CHOOSE k \in 1..Len(text) :
                      text[k] = NL /\ \A j \in 1..(k - 1) : text[j] # NL
         IN  <<Slice(text, 1, p - 1)>> \o split(Slice(text, p + 1, Len(text)))

\* "\n".join(parts)
RECURSIVE join(_)
join(parts) ==
    IF parts = <<>> THEN <<>>
    ELSE IF Len(parts) = 1 THEN parts[1]
    ELSE parts[1] \o <<NL>> \o join(Tail(parts))

-----------------------------------------------------------------------------
(* parse_sse_events *)

SseAlphabet == {NL, SP, "event:", "data:", "id:", ":", "a"}

SseTexts == UNION {[1..n -> SseAlphabet] : n \in 0..MaxSseText}

SSEEvent(e, d, i) == [event |-> e, data |-> d, id |-> i]

raw_lines == split(sse_text)

SseLine == raw_lines[sse_i]

SseInLoop == sse_pc = "loop" /\ sse_i <= Len(raw_lines)

\* FieldValue without the strip
FieldValue_Unstripped(line) == Tail(line)

\* the value a field line contributes: line[len(prefix):].strip()
FieldValue(line) == strip(Tail(line))

SseIdle ==
    /\ sse_text = <<>>
    /\ sse_i = 1
    /\ current_event = None
    /\ current_data = <<>>
    /\ current_id = None
    /\ events = <<>>
    /\ sse_pc = "idle"

SseInit ==
    /\ sse_text \in SseTexts
    /\ sse_i = 1
    /\ current_event = None
    /\ current_data = <<>>
    /\ current_id = None
    /\ events = <<>>
    /\ sse_pc = "loop"

\* SseBlankLine with only the data lines reset: event and id carry over
SseBlankLine_KeepsEventAndId ==
    /\ SseInLoop
    /\ SseLine = <<>>
    /\ events' = IF current_data # <<>>
                 THEN Append(events, SSEEvent(current_event, join(current_data), current_id))
                 ELSE events
    /\ current_data' = <<>>
    /\ sse_i' = sse_i + 1
    /\ UNCHANGED <<sse_text, sse_pc, current_event, current_id>>
    /\ UNCHANGED NotSse

\* line == "": the event boundary
SseBlankLine ==
    /\ SseInLoop
    /\ SseLine = <<>>
    /\ events' = IF current_data # <<>>
                 THEN Append(events, SSEEvent(current_event, join(current_data), current_id))
                 ELSE events
    /\ current_event' = None
    /\ current_data' = <<>>
    /\ current_id' = None
    /\ sse_i' = sse_i + 1
    /\ UNCHANGED <<sse_text, sse_pc>>
    /\ UNCHANGED NotSse

SseEventLine ==
    /\ SseInLoop
    /\ SseLine # <<>>
    /\ startswith(SseLine, "event:")
    /\ current_event' = FieldValue(SseLine)
    /\ sse_i' = sse_i + 1
    /\ UNCHANGED <<sse_text, current_data, current_id, events, sse_pc>>
    /\ UNCHANGED NotSse

SseDataLine ==
    /\ SseInLoop
    /\ SseLine # <<>>
    /\ ~startswith(SseLine, "event:")
    /\ startswith(SseLine, "data:")
    /\ current_data' = Append(current_data, FieldValue(SseLine))
    /\ sse_i' = sse_i + 1
    /\ UNCHANGED <<sse_text, current_event, current_id, events, sse_pc>>
    /\ UNCHANGED NotSse

SseIdLine ==
    /\ SseInLoop
    /\ SseLine # <<>>
    /\ ~startswith(SseLine, "event:")
    /\ ~startswith(SseLine, "data:")
    /\ startswith(SseLine, "id:")
    /\ current_id' = FieldValue(SseLine)
    /\ sse_i' = sse_i + 1
    /\ UNCHANGED <<sse_text, current_event, current_data, events, sse_pc>>
    /\ UNCHANGED NotSse

\* SseOtherLine taken as a boundary without a flush: the data lines are reset
SseOtherLine_ResetsData ==
    /\ SseInLoop
    /\ SseLine # <<>>
    /\ ~startswith(SseLine, "event:")
    /\ ~startswith(SseLine, "data:")
    /\ ~startswith(SseLine, "id:")
    /\ current_data' = <<>>
    /\ sse_i' = sse_i + 1
    /\ UNCHANGED <<sse_text, current_event, current_id, events, sse_pc>>
    /\ UNCHANGED NotSse

\* a comment, or any other bare line: skipped
SseOtherLine ==
    /\ SseInLoop
    /\ SseLine # <<>>
    /\ ~startswith(SseLine, "event:")
    /\ ~startswith(SseLine, "data:")
    /\ ~startswith(SseLine, "id:")
    /\ sse_i' = sse_i + 1
    /\ UNCHANGED <<sse_text, current_event, current_data, current_id, events, sse_pc>>
    /\ UNCHANGED NotSse

\* the loop is over: return events
SseReturn ==
    /\ sse_pc = "loop"
    /\ sse_i > Len(raw_lines)
    /\ sse_pc' = "done"
    /\ UNCHANGED <<sse_text, sse_i, current_event, current_data, current_id, events>>
    /\ UNCHANGED NotSse

SseNext ==
    \/ SseBlankLine
    \/ SseEventLine
    \/ SseDataLine
    \/ SseIdLine
    \/ SseOtherLine
    \/ SseReturn

-----------------------------------------------------------------------------
(* JSON payloads.  A JSON document is one lexeme, decoded by JsonTable; a    *)
(* dict is a function from its keys; a JSON string is a lexeme sequence.     *)

TokensJson ==
    ("{\"text\":\"\"}" :> [text |-> <<>>])
    @@ ("{\"text\":\"A\"}" :> [text |-> <<"A">>])
    @@ ("{\"text\":\"AB\"}" :> [text |-> <<"A", "B">>])
    @@ ("{\"id\":\"m\"}" :> [id |-> <<"m">>])

\* a summarizer record: type, output_text and output_data.status
SumDoc(type, text, status) ==
    [type |-> <<type>>, output_text |-> <<text>>, output_data |-> [status |-> <<status>>]]

UpdGenA == "{\"type\":\"update\",\"output_text\":\"a\",\"output_data\":{\"status\":\"generating\"}}"
UpdGenB == "{\"type\":\"update\",\"output_text\":\"b\",\"output_data\":{\"status\":\"generating\"}}"
UpdDoneA == "{\"type\":\"update\",\"output_text\":\"a\",\"output_data\":{\"status\":\"completed\"}}"
UpdDoneB == "{\"type\":\"update\",\"output_text\":\"b\",\"output_data\":{\"status\":\"completed\"}}"
FinalA == "{\"type\":\"final\",\"output_text\":\"a\",\"output_data\":{\"status\":\"completed\"}}"
FinalB == "{\"type\":\"final\",\"output_text\":\"b\",\"output_data\":{\"status\":\"completed\"}}"
HiDoc == "{\"v\":\"1\"}"

SummaryJson ==
    (UpdGenA :> SumDoc("update", "a", "generating"))
    @@ (UpdGenB :> SumDoc("update", "b", "generating"))
    @@ (UpdDoneA :> SumDoc("update", "a", "completed"))
    @@ (UpdDoneB :> SumDoc("update", "b", "completed"))
    @@ (FinalA :> SumDoc("final", "a", "completed"))
    @@ (FinalB :> SumDoc("final", "b", "completed"))
    @@ (HiDoc :> [v |-> <<"1">>])

ThreadDoc == "{\"id\":\"thread-1\",\"title\":\"Test\",\"created_at\":\"t0\"}"
MsgWaiting == "{\"id\":\"msg-1\",\"created_at\":\"t0\",\"state\":\"waiting\",\"prompt\":\"Hello\"}"
MsgDone == "{\"id\":\"msg-1\",\"created_at\":\"t0\",\"state\":\"done\",\"prompt\":\"Hello\",\"reply\":\"A\",\"md\":\"A\"}"

AssistantJson ==
    (ThreadDoc :> [id |-> <<"thread-1">>, title |-> <<"Test">>, created_at |-> <<"t0">>])
    @@ (MsgWaiting :> [id |-> <<"msg-1">>, created_at |-> <<"t0">>,
                       state |-> <<"waiting">>, prompt |-> <<"Hello">>])
    @@ (MsgDone :> [id |-> <<"msg-1">>, created_at |-> <<"t0">>, state |-> <<"done">>,
                    prompt |-> <<"Hello">>, reply |-> <<"A">>, md |-> <<"A">>])

LangEn == "{\"detected_language\":{\"iso\":\"en\",\"label\":\"English\"}}"
LangFr == "{\"detected_language\":{\"iso\":\"fr\",\"label\":\"French\"}}"
DeltaHel == "{\"delta\":\"Hel\"}"
DeltaLo == "{\"delta\":\"lo\"}"
TextDone == "{\"text_done\":true}"
AnalysisDoc == "{\"analysis\":{\"corrected_text\":\"Hello\",\"corrections_summary\":\"ok\",\"tone_analysis\":{\"overall_tone\":\"neutral\",\"description\":\"plain\"},\"writing_statistics\":{\"word_count\":1,\"character_count\":5,\"character_count_no_spaces\":5,\"paragraph_count\":1,\"sentence_count\":1,\"average_words_per_sentence\":1,\"average_characters_per_word\":5,\"vocabulary_diversity\":1,\"reading_time_minutes\":0,\"reading_level\":\"easy\",\"readability_score\":90}}}"

ProofreadJson ==
    (LangEn :> [detected_language |-> [iso |-> <<"en">>, label |-> <<"English">>]])
    @@ (LangFr :> [detected_language |-> [iso |-> <<"fr">>, label |-> <<"French">>]])
    @@ (DeltaHel :> [delta |-> <<"Hel">>])
    @@ (DeltaLo :> [delta |-> <<"lo">>])
    @@ (TextDone :> [text_done |-> TRUE])
    @@ (AnalysisDoc :>
           [analysis |->
               [corrected_text |-> <<"Hello">>,
                corrections_summary |-> <<"ok">>,
                tone_analysis |-> [overall_tone |-> <<"neutral">>, description |-> <<"plain">>],
                writing_statistics |->
                    [word_count |-> 1, character_count |-> 5,
                     character_count_no_spaces |-> 5, paragraph_count |-> 1,
                     sentence_count |-> 1, average_words_per_sentence |-> 1,
                     average_characters_per_word |-> 5, vocabulary_diversity |-> 1,
                     reading_time_minutes |-> 0, reading_level |-> <<"easy">>,
                     readability_score |-> 90]]])

\* the lexemes of result markup: the start of a result block, which
\* _RESULT_BLOCK_RE matches; two title links, which _TITLE_LINK_RE matches; a
\* description container, a date span, a web-archive link; other markup
ResultMarker == "<div class=\"_0_SRI\""
TitleLink1 == "<a class=\"__sri_title_link\" href=\"u1\">t1</a>"
TitleLink2 == "<a class=\"__sri_title_link\" href=\"u2\"><b>t2</b></a>"
DescDiv == "<div class=\"__sri-desc\">d1</div></div>"
DateSpan == "<span class=\"__sri-time\">Feb 12</span>"
ArchiveLink == "<a href=\"https://web.archive.org/u1\">"

\* JSON values whose type the reducer tests with isinstance
JStr(s) == [json_type |-> "str", val |-> s]
JDict(d) == [json_type |-> "dict", val |-> d]
JList(xs) == [json_type |-> "list", val |-> xs]

IsList(v) == "json_type" \in DOMAIN v /\ v.json_type = "list"
IsDict(v) == v.json_type = "dict"
IsStr(v) == v.json_type = "str"

Item(tag, payload) == [tag |-> <<tag>>, payload |-> payload]

\* the data of the frames of a search response: an HTML fragment as a record;
\* an HTML fragment as a string, bundled with a search.info; two search.info
\* in one frame; a domain_info as a record, with a domain twice; a
\* domain_info as a string of JSON; a domain_info as a string that is not
\* JSON; a record instead of an array
EvHtml == "[{\"tag\":\"search\",\"payload\":{\"content\":\"<div class=\\\"_0_SRI\\\"<a class=\\\"__sri_title_link\\\" href=\\\"u1\\\">t1</a>\"}}]"
EvHtmlInfo == "[{\"tag\":\"search\",\"payload\":\"<p>\"},{\"tag\":\"search.info\",\"payload\":{\"next_batch\":2}}]"
EvInfos == "[{\"tag\":\"search.info\",\"payload\":{\"share_url\":\"u\",\"next_batch\":3}},{\"tag\":\"search.info\",\"payload\":{\"curr_batch\":2}}]"
EvDomains == "[{\"tag\":\"domain_info\",\"payload\":{\"data\":[{\"domain\":\"x\"},{\"domain\":\"x\"}]}}]"
EvDomainsStr == "[{\"tag\":\"domain_info\",\"payload\":\"{\\\"data\\\":[{\\\"domain\\\":\\\"y\\\"}]}\"}]"
EvDomainsBad == "[{\"tag\":\"domain_info\",\"payload\":\"<p>\"}]"
EvNotArray == "{\"tag\":\"search\",\"payload\":\"<p>\"}"
DomainsDoc == "{\"data\":[{\"domain\":\"y\"}]}"

SearchJson ==
    (EvHtml :> JList(<<Item("search", JDict([content |-> <<ResultMarker, TitleLink1>>]))>>))
    @@ (EvHtmlInfo :> JList(<<Item("search", JStr(<<"<p>">>)),
                             Item("search.info", JDict([next_batch |-> 2]))>>))
    @@ (EvInfos :> JList(<<Item("search.info", JDict([share_url |-> <<"u">>, next_batch |-> 3])),
                          Item("search.info", JDict([curr_batch |-> 2]))>>))
    @@ (EvDomains :> JList(<<Item("domain_info",
                                 JDict([data |-> <<[domain |-> <<"x">>], [domain |-> <<"x">>]>>]))>>))
    @@ (EvDomainsStr :> JList(<<Item("domain_info", JStr(<<DomainsDoc>>))>>))
    @@ (EvDomainsBad :> JList(<<Item("domain_info", JStr(<<"<p>">>))>>))
    @@ (EvNotArray :> [tag |-> <<"search">>, payload |-> <<"<p>">>])
    @@ (DomainsDoc :> [data |-> <<[domain |-> <<"y">>]>>])

JsonTable == TokensJson @@ SummaryJson @@ AssistantJson @@ ProofreadJson @@ SearchJson

IsJson(lex) == lex \in DOMAIN JsonTable

\* the outcome of a decode: the value, or JSONDecodeError
Decoded(v) == [ok |-> TRUE, val |-> v]
JSONDecodeError == [ok |-> FALSE, val |-> <<>>]

\* json.loads(s): exactly one document, surrounding whitespace allowed
json_loads(s) ==
    LET t == strip(s)
    IN  IF Len(t) = 1 /\ IsJson(t[1]) THEN Decoded(JsonTable[t[1]]) ELSE JSONDecodeError

\* assistant._parse_json: _decoder.raw_decode(payload.strip()), the first
\* document, whatever follows it
parse_json(payload) ==
    LET t == strip(payload)
    IN  IF Len(t) >= 1 /\ IsJson(t[1]) THEN Decoded(JsonTable[t[1]]) ELSE JSONDecodeError

\* dict.get(key, default)
Get(d, key, default) == IF key \in DOMAIN d THEN d[key] ELSE default

-----------------------------------------------------------------------------
(* The proprietary "tag:payload" line *)

\* the lexemes that match [a-zA-Z_][a-zA-Z0-9_.\-]*
Words == {"tokens.json", "thread.json", "new_message.json", "thread_list.html",
          "hi", "update", "final", "a"}

KagiStreamLine(t, p) == [tag |-> <<t>>, payload |-> p]

\* no KagiStreamLine: the None of parse_kagi_stream_line
NoLine == [tag |-> None, payload |-> None]

\* _TAG_RE.match(s): group(1) the tag, group(2) the rest of the line
TAG_RE_match(s) ==
    IF Len(s) >= 2 /\ s[1] \in Words /\ s[2] = ":"
    THEN KagiStreamLine(s[1], Slice(s, 3, Len(s)))
    ELSE NoLine

parse_kagi_stream_line(line) == TAG_RE_match(strip(line))

-----------------------------------------------------------------------------
(* AssistantClient.prompt_stream *)

NoError == "none"

\* the raw lines the transport may deliver
PsLines ==
    {<<"tokens.json", ":", j>> : j \in DOMAIN TokensJson}
    \cup {<<"tokens.json", ":", "{\"text\":\"A\"}", "<p>">>,   \* trailing data
          <<"tokens.json", ":", "<p>">>,                       \* not JSON
          <<SP, "tokens.json", ":", "{\"text\":\"AB\"}">>,     \* indented
          <<"new_message.json", ":", "{\"text\":\"A\"}">>,     \* another tag
          <<SP, "<p>">>,                                       \* no tag line
          <<>>}

PsIdle ==
    /\ ps_lines = <<>>
    /\ prev_text = <<>>
    /\ ps_yielded = <<>>
    /\ ps_error = NoError
    /\ ps_pc = "idle"

PsInit ==
    /\ ps_lines = <<>>
    /\ prev_text = <<>>
    /\ ps_yielded = <<>>
    /\ ps_error = NoError
    /\ ps_pc = "request"

\* resp.status_code != 200: raise APIError
PsHttpError ==
    /\ ps_pc = "request"
    /\ ps_pc' = "raised"
    /\ ps_error' = "APIError"
    /\ UNCHANGED <<ps_lines, prev_text, ps_yielded>>
    /\ UNCHANGED NotPs

PsHttpOk ==
    /\ ps_pc = "request"
    /\ ps_pc' = "streaming"
    /\ UNCHANGED <<ps_lines, prev_text, ps_yielded, ps_error>>
    /\ UNCHANGED NotPs

\* PsSnapshot yielding a text only when it is longer than the last yielded
PsSnapshot_OnlyGrowing(raw_line, prev) ==
    LET parsed == parse_kagi_stream_line(raw_line)
    IN  IF parsed = NoLine \/ parsed.tag # <<"tokens.json">> THEN None
        ELSE LET data == parse_json(parsed.payload)
             IN  IF ~data.ok THEN None
                 ELSE LET full_text == Get(data.val, "text", <<>>)
                      IN  IF full_text # <<>> /\ Len(full_text) > Len(prev)
                          THEN full_text
                          ELSE None

\* PsSnapshot with the comparison against prev_text left out
PsSnapshot_NoDedup(raw_line, prev) ==
    LET parsed == parse_kagi_stream_line(raw_line)
    IN  IF parsed = NoLine \/ parsed.tag # <<"tokens.json">> THEN None
        ELSE LET data == parse_json(parsed.payload)
             IN  IF ~data.ok THEN None
                 ELSE LET full_text == Get(data.val, "text", <<>>)
                      IN  IF full_text # <<>> THEN full_text ELSE None

\* whether the loop body yields for this line: the text to yield, or None
PsSnapshot(raw_line, prev) ==
    LET parsed == parse_kagi_stream_line(raw_line)
    IN  IF parsed = NoLine \/ parsed.tag # <<"tokens.json">> THEN None
        ELSE LET data == parse_json(parsed.payload)
             IN  IF ~data.ok THEN None
                 ELSE LET full_text == Get(data.val, "text", <<>>)
                      IN  IF full_text # <<>> /\ full_text # prev
                          THEN full_text
                          ELSE None

\* one pass of `async for raw_line in resp.aiter_lines()`
PsRawLine ==
    /\ ps_pc = "streaming"
    /\ Len(ps_lines) < MaxPsLines
    /\ \E raw_line \in PsLines :
        LET y == PsSnapshot(raw_line, prev_text)
        IN  /\ ps_lines' = Append(ps_lines, raw_line)
            /\ prev_text' = IF y # None THEN y ELSE prev_text
            /\ ps_yielded' = IF y # None THEN Append(ps_yielded, y) ELSE ps_yielded
    /\ UNCHANGED <<ps_error, ps_pc>>
    /\ UNCHANGED NotPs

\* the response is over
PsEnd ==
    /\ ps_pc = "streaming"
    /\ ps_pc' = "done"
    /\ UNCHANGED <<ps_lines, prev_text, ps_yielded, ps_error>>
    /\ UNCHANGED NotPs

PsNext ==
    \/ PsHttpError
    \/ PsHttpOk
    \/ PsRawLine
    \/ PsEnd

-----------------------------------------------------------------------------
(* SearchClient.search_all *)

\* an int | None: <<>> is None, <<n>> is n
NoInt == <<>>
SomeInt(n) == <<n>>

\* a response page, by its search.info item: none at all, or one whose
\* next_batch is given
SaPages == {[next_batch |-> NoInt]} \cup {[next_batch |-> SomeInt(n)] : n \in -1..MaxBatch}

\* SearchClient.search on a 200 response: result.info.next_batch is the
\* search.info item's next_batch, -1 when the page has no search.info
SearchResultOf(page) ==
    [info |-> [next_batch |-> IF page.next_batch = NoInt THEN -1 ELSE page.next_batch[1]]]

NoResult == [info |-> [next_batch |-> -1]]

SaIdle ==
    /\ sa_requests = <<>>
    /\ sa_served = <<>>
    /\ sa_result = NoResult
    /\ sa_yielded = <<>>
    /\ sa_error = NoError
    /\ sa_pc = "idle"

SaInit ==
    /\ sa_requests = <<>>
    /\ sa_served = <<>>
    /\ sa_result = NoResult
    /\ sa_yielded = <<>>
    /\ sa_error = NoError
    /\ sa_pc = "start"

\* the loop condition with 0 taken for a page number
SaMorePages_ZeroIncluded(result) == result.info.next_batch >= 0

\* while result.info.next_batch > 0
SaMorePages(result) == result.info.next_batch > 0

\* result = await self.search(query): the request goes out, batch=None
SaFirstRequest ==
    /\ sa_pc = "start"
    /\ sa_requests' = Append(sa_requests, NoInt)
    /\ sa_pc' = "await"
    /\ UNCHANGED <<sa_served, sa_result, sa_yielded, sa_error>>
    /\ UNCHANGED NotSa

\* the response is 200: search returns the parsed page, search_all yields it
SaResponse ==
    /\ sa_pc = "await"
    /\ \E page \in SaPages :
        /\ sa_served' = Append(sa_served, page)
        /\ sa_result' = SearchResultOf(page)
        /\ sa_yielded' = Append(sa_yielded, SearchResultOf(page))
    /\ sa_pc' = "yielded"
    /\ UNCHANGED <<sa_requests, sa_error>>
    /\ UNCHANGED NotSa

\* the response is not 200: _request raises APIError out of search_all
SaHttpError ==
    /\ sa_pc = "await"
    /\ sa_error' = "APIError"
    /\ sa_pc' = "raised"
    /\ UNCHANGED <<sa_requests, sa_served, sa_result, sa_yielded>>
    /\ UNCHANGED NotSa

\* SaNextRequest with a page counter for the batch, instead of the cursor of
\* the last result
SaNextRequest_CountsPages ==
    /\ sa_pc = "yielded"
    /\ SaMorePages(sa_result)
    /\ Len(sa_requests) < MaxPages
    /\ sa_requests' = Append(sa_requests, SomeInt(Len(sa_requests) + 1))
    /\ sa_pc' = "await"
    /\ UNCHANGED <<sa_served, sa_result, sa_yielded, sa_error>>
    /\ UNCHANGED NotSa

\* the consumer asks for the next result and the loop goes on:
\* result = await self.search(query, batch=result.info.next_batch)
SaNextRequest ==
    /\ sa_pc = "yielded"
    /\ SaMorePages(sa_result)
    /\ Len(sa_requests) < MaxPages
    /\ sa_requests' = Append(sa_requests, SomeInt(sa_result.info.next_batch))
    /\ sa_pc' = "await"
    /\ UNCHANGED <<sa_served, sa_result, sa_yielded, sa_error>>
    /\ UNCHANGED NotSa

\* the consumer asks for the next result and the loop is over
SaFinish ==
    /\ sa_pc = "yielded"
    /\ ~SaMorePages(sa_result)
    /\ sa_pc' = "done"
    /\ UNCHANGED <<sa_requests, sa_served, sa_result, sa_yielded, sa_error>>
    /\ UNCHANGED NotSa

\* the consumer stops iterating: the generator is never resumed
SaClose ==
    /\ sa_pc = "yielded"
    /\ sa_pc' = "closed"
    /\ UNCHANGED <<sa_requests, sa_served, sa_result, sa_yielded, sa_error>>
    /\ UNCHANGED NotSa

SaNext ==
    \/ SaFirstRequest
    \/ SaResponse
    \/ SaHttpError
    \/ SaNextRequest
    \/ SaFinish
    \/ SaClose

-----------------------------------------------------------------------------
(* SummarizerClient.summarize, summarize_stream, _parse_summary_response *)

\* the frames of a summarizer response: update and final records whose type
\* is their tag, a greeting, and frames whose payload is markup, not JSON
SumFrames ==
    {KagiStreamLine("update", <<j>>) : j \in {UpdGenA, UpdGenB, UpdDoneA, UpdDoneB}}
    \cup {KagiStreamLine("final", <<j>>) : j \in {FinalA, FinalB}}
    \cup {KagiStreamLine("hi", <<HiDoc>>)}
    \cup {KagiStreamLine(t, <<"<p>">>) : t \in {"update", "final", "hi"}}

SumStreams == UNION {[1..n -> SumFrames] : n \in 0..MaxSumLines}

EmptyDict == <<>>

SummaryResult(final_data) ==
    LET od == Get(final_data, "output_data", EmptyDict)
    IN  [output_text |-> Get(final_data, "output_text", <<>>),
         status |-> Get(od, "status", <<>>)]

SummaryUpdate(data) ==
    LET od == Get(data, "output_data", EmptyDict)
    IN  [output_text |-> Get(data, "output_text", <<>>),
         status |-> Get(od, "status", <<>>),
         type |-> Get(data, "type", <<"update">>)]

NoSummary == [output_text |-> None, status |-> None]

\* what a call ends with: a value returned, or an exception raised
Returned(v) == [ok |-> TRUE, val |-> v, err |-> NoError]
Raised(e) == [ok |-> FALSE, val |-> NoSummary, err |-> e]

\* for line in lines: the first record whose type is "final"
\* ("found", "none", or "raise" when a payload does not load)
RECURSIVE SumFirstFinal(_, _)
SumFirstFinal(lines, i) ==
    IF i > Len(lines) THEN [k |-> "none", data |-> EmptyDict]
    ELSE LET data == json_loads(lines[i].payload)
         IN  IF ~data.ok THEN [k |-> "raise", data |-> EmptyDict]
             ELSE IF Get(data.val, "type", None) = <<"final">>
                  THEN [k |-> "found", data |-> data.val]
                  ELSE SumFirstFinal(lines, i + 1)

\* for line in reversed(lines): the last record whose status is "completed"
RECURSIVE SumLastCompleted(_, _)
SumLastCompleted(lines, i) ==
    IF i < 1 THEN [k |-> "none", data |-> EmptyDict]
    ELSE LET data == json_loads(lines[i].payload)
         IN  IF ~data.ok THEN [k |-> "raise", data |-> EmptyDict]
             ELSE IF Get(Get(data.val, "output_data", EmptyDict), "status", None) = <<"completed">>
                  THEN [k |-> "found", data |-> data.val]
                  ELSE SumLastCompleted(lines, i - 1)

\* json.loads(lines[-1].payload)
SumLastLine(lines) ==
    IF lines = <<>> THEN [k |-> "index", data |-> EmptyDict]
    ELSE LET data == json_loads(lines[Len(lines)].payload)
         IN  IF ~data.ok THEN [k |-> "raise", data |-> EmptyDict]
             ELSE [k |-> "found", data |-> data.val]

\* the record _parse_summary_response builds its result from
SumFinalData(lines) ==
    LET first == SumFirstFinal(lines, 1)
    IN  IF first.k # "none" THEN first
        ELSE LET second == SumLastCompleted(lines, Len(lines))
             IN  IF second.k # "none" THEN second ELSE SumLastLine(lines)

parse_summary_response(lines) ==
    LET sel == SumFinalData(lines)
    IN  CASE sel.k = "found" -> Returned(SummaryResult(sel.data))
          [] sel.k = "raise" -> Raised("JSONDecodeError")
          [] sel.k = "index" -> Raised("IndexError")

SumIdle ==
    /\ sum_lines = <<>>
    /\ sum_result = NoSummary
    /\ sum_i = 1
    /\ sum_updates = <<>>
    /\ sum_error = NoError
    /\ sum_pc = "idle"

SumInit ==
    /\ sum_lines = <<>>
    /\ sum_result = NoSummary
    /\ sum_i = 1
    /\ sum_updates = <<>>
    /\ sum_error = NoError
    /\ sum_pc = "request"

\* _request: resp.status_code != 200
SumHttpError ==
    /\ sum_pc = "request"
    /\ sum_error' = "APIError"
    /\ sum_pc' = "raised"
    /\ UNCHANGED <<sum_lines, sum_result, sum_i, sum_updates>>
    /\ UNCHANGED NotSum

\* _request returns the whole response; its text is framed
SumHttpOk ==
    /\ sum_pc = "request"
    /\ sum_lines' \in SumStreams
    /\ sum_pc' = "response"
    /\ UNCHANGED <<sum_result, sum_i, sum_updates, sum_error>>
    /\ UNCHANGED NotSum

\* summarize: return _parse_summary_response(resp.text)
Summarize ==
    /\ sum_pc = "response"
    /\ LET r == parse_summary_response(sum_lines)
       IN  /\ sum_result' = r.val
           /\ sum_error' = r.err
           /\ sum_pc' = IF r.ok THEN "returned" ELSE "raised"
    /\ UNCHANGED <<sum_lines, sum_i, sum_updates>>
    /\ UNCHANGED NotSum

\* summarize_stream: one pass of `for line in lines`
SummarizeStreamLine ==
    /\ sum_pc \in {"response", "streaming"}
    /\ sum_i <= Len(sum_lines)
    /\ LET data == json_loads(sum_lines[sum_i].payload)
       IN  IF data.ok
           THEN /\ sum_updates' = Append(sum_updates, SummaryUpdate(data.val))
                /\ sum_i' = sum_i + 1
                /\ sum_pc' = "streaming"
                /\ UNCHANGED sum_error
           ELSE /\ sum_error' = "JSONDecodeError"
                /\ sum_pc' = "stream_raised"
                /\ UNCHANGED <<sum_updates, sum_i>>
    /\ UNCHANGED <<sum_lines, sum_result>>
    /\ UNCHANGED NotSum

\* summarize_stream: the loop is over
SummarizeStreamEnd ==
    /\ sum_pc \in {"response", "streaming"}
    /\ sum_i > Len(sum_lines)
    /\ sum_pc' = "exhausted"
    /\ UNCHANGED <<sum_lines, sum_result, sum_i, sum_updates, sum_error>>
    /\ UNCHANGED NotSum

SumNext ==
    \/ SumHttpError
    \/ SumHttpOk
    \/ Summarize
    \/ SummarizeStreamLine
    \/ SummarizeStreamEnd

-----------------------------------------------------------------------------
(* AssistantClient.prompt, _parse_assistant_response *)

\* the frames of an assistant response: the thread record, the message in its
\* two states, a token snapshot, a markup frame; and thread and message
\* frames whose payload is not JSON
AsFrames ==
    {KagiStreamLine("thread.json", <<ThreadDoc>>),
     KagiStreamLine("thread.json", <<"<p>">>),
     KagiStreamLine("new_message.json", <<MsgWaiting>>),
     KagiStreamLine("new_message.json", <<MsgDone>>),
     KagiStreamLine("new_message.json", <<"<p>">>),
     KagiStreamLine("tokens.json", <<"{\"text\":\"A\"}">>),
     KagiStreamLine("thread_list.html", <<"<p>">>)}

AsStreams == UNION {[1..n -> AsFrames] : n \in 0..MaxAsLines}

AssistantThread(data) ==
    [id |-> data.id, title |-> data.title, created_at |-> data.created_at,
     expires_at |-> Get(data, "expires_at", <<>>),
     saved |-> Get(data, "saved", FALSE),
     shared |-> Get(data, "shared", FALSE)]

AssistantMessage(data) ==
    [id |-> data.id, created_at |-> data.created_at, state |-> data.state,
     prompt |-> data.prompt, reply |-> Get(data, "reply", None), md |-> Get(data, "md", None)]

NoThread == [id |-> None, title |-> None, created_at |-> None,
             expires_at |-> None, saved |-> FALSE, shared |-> FALSE]
NoMessage == [id |-> None, created_at |-> None, state |-> None,
              prompt |-> None, reply |-> None, md |-> None]

\* an exception: its class and, for APIError, its status_code
Exception(kind, status_code) == [kind |-> kind, status_code |-> status_code]
NoException == Exception("none", 0)

AsIdle ==
    /\ as_lines = <<>>
    /\ as_i = 1
    /\ as_thread = NoThread
    /\ as_message = NoMessage
    /\ as_error = NoException
    /\ as_pc = "idle"

AsInit ==
    /\ as_lines = <<>>
    /\ as_i = 1
    /\ as_thread = NoThread
    /\ as_message = NoMessage
    /\ as_error = NoException
    /\ as_pc = "request"

\* _request: resp.status_code != 200
AsHttpError ==
    /\ as_pc = "request"
    /\ \E status_code \in {401, 500} : as_error' = Exception("APIError", status_code)
    /\ as_pc' = "raised"
    /\ UNCHANGED <<as_lines, as_i, as_thread, as_message>>
    /\ UNCHANGED NotAs

\* _request returns; _parse_assistant_response frames the text
AsHttpOk ==
    /\ as_pc = "request"
    /\ as_lines' \in AsStreams
    /\ as_pc' = "fold"
    /\ UNCHANGED <<as_i, as_thread, as_message, as_error>>
    /\ UNCHANGED NotAs

\* one pass of `for line in lines`
AsLine ==
    /\ as_pc = "fold"
    /\ as_i <= Len(as_lines)
    /\ LET line == as_lines[as_i]
           data == parse_json(line.payload)
       IN  IF line.tag = <<"thread.json">>
           THEN IF data.ok
                THEN /\ as_thread' = AssistantThread(data.val)
                     /\ as_i' = as_i + 1
                     /\ UNCHANGED <<as_message, as_error, as_pc>>
                ELSE /\ as_error' = Exception("JSONDecodeError", 0)
                     /\ as_pc' = "raised"
                     /\ UNCHANGED <<as_thread, as_message, as_i>>
           ELSE IF line.tag = <<"new_message.json">>
           THEN IF data.ok
                THEN /\ as_message' = AssistantMessage(data.val)
                     /\ as_i' = as_i + 1
                     /\ UNCHANGED <<as_thread, as_error, as_pc>>
                ELSE /\ as_error' = Exception("JSONDecodeError", 0)
                     /\ as_pc' = "raised"
                     /\ UNCHANGED <<as_thread, as_message, as_i>>
           ELSE /\ as_i' = as_i + 1
                /\ UNCHANGED <<as_thread, as_message, as_error, as_pc>>
    /\ UNCHANGED as_lines
    /\ UNCHANGED NotAs

\* AsReturn without the check of thread
AsReturn_ThreadUnchecked ==
    /\ as_pc = "fold"
    /\ as_i > Len(as_lines)
    /\ IF as_message = NoMessage
       THEN /\ as_error' = Exception("APIError", 200)
            /\ as_pc' = "raised"
       ELSE /\ as_pc' = "returned"
            /\ UNCHANGED as_error
    /\ UNCHANGED <<as_lines, as_i, as_thread, as_message>>
    /\ UNCHANGED NotAs

\* after the loop: raise APIError(status_code=200) when the thread or the
\* message is missing, else return AssistantResult(thread, message)
AsReturn ==
    /\ as_pc = "fold"
    /\ as_i > Len(as_lines)
    /\ IF as_thread = NoThread \/ as_message = NoMessage
       THEN /\ as_error' = Exception("APIError", 200)
            /\ as_pc' = "raised"
       ELSE /\ as_pc' = "returned"
            /\ UNCHANGED as_error
    /\ UNCHANGED <<as_lines, as_i, as_thread, as_message>>
    /\ UNCHANGED NotAs

AsNext ==
    \/ AsHttpError
    \/ AsHttpOk
    \/ AsLine
    \/ AsReturn

-----------------------------------------------------------------------------
(* ProofreadClient.proofread, _parse_proofread_response *)

\* the frames of a proofread response, by their data: the four kinds of
\* record, a record with none of the three keys, markup, the empty data of a
\* `data:` line without a value, and a record with text after it
PrData ==
    {<<j>> : j \in DOMAIN ProofreadJson} \cup {<<"<p>">>, <<>>, <<DeltaLo, "<p>">>}

PrStreams == UNION {[1..n -> {SSEEvent(None, d, None) : d \in PrData}] : n \in 0..MaxPrEvents}

DetectedLanguage(dl) == [iso |-> dl.iso, label |-> dl.label]

parse_writing_stats(raw) ==
    [word_count |-> raw.word_count,
     character_count |-> raw.character_count,
     character_count_no_spaces |-> raw.character_count_no_spaces,
     paragraph_count |-> raw.paragraph_count,
     sentence_count |-> raw.sentence_count,
     average_words_per_sentence |-> raw.average_words_per_sentence,
     average_characters_per_word |-> raw.average_characters_per_word,
     vocabulary_diversity |-> raw.vocabulary_diversity,
     reading_time_minutes |-> raw.reading_time_minutes,
     reading_level |-> raw.reading_level,
     readability_score |-> raw.readability_score]

ProofreadAnalysis(a) ==
    [corrected_text |-> a.corrected_text,
     changes |-> Get(a, "changes", <<>>),
     corrections_summary |-> a.corrections_summary,
     tone_analysis |-> [overall_tone |-> a.tone_analysis.overall_tone,
                        description |-> a.tone_analysis.description],
     writing_statistics |-> parse_writing_stats(a.writing_statistics)]

NoLanguage == [iso |-> None, label |-> None]
NoAnalysis == [corrected_text |-> None]

\* "".join(parts)
RECURSIVE concat(_)
concat(parts) == IF parts = <<>> THEN <<>> ELSE parts[1] \o concat(Tail(parts))

ProofreadResult(dl, text, a) == [detected_language |-> dl, text |-> text, analysis |-> a]
NoProofread == ProofreadResult(NoLanguage, None, NoAnalysis)

PrIdle ==
    /\ pr_events = <<>>
    /\ pr_i = 1
    /\ detected_language = NoLanguage
    /\ text_parts = <<>>
    /\ analysis = NoAnalysis
    /\ pr_result = NoProofread
    /\ pr_error = NoException
    /\ pr_pc = "idle"

PrInit ==
    /\ pr_events = <<>>
    /\ pr_i = 1
    /\ detected_language = NoLanguage
    /\ text_parts = <<>>
    /\ analysis = NoAnalysis
    /\ pr_result = NoProofread
    /\ pr_error = NoException
    /\ pr_pc = "request"

\* _request: resp.status_code != 200
PrHttpError ==
    /\ pr_pc = "request"
    /\ \E status_code \in {401, 500} : pr_error' = Exception("APIError", status_code)
    /\ pr_pc' = "raised"
    /\ UNCHANGED <<pr_events, pr_i, detected_language, text_parts, analysis, pr_result>>
    /\ UNCHANGED NotPr

\* _request returns; _parse_proofread_response frames the text
PrHttpOk ==
    /\ pr_pc = "request"
    /\ pr_events' \in PrStreams
    /\ pr_pc' = "fold"
    /\ UNCHANGED <<pr_i, detected_language, text_parts, analysis, pr_result, pr_error>>
    /\ UNCHANGED NotPr

\* one pass of `for event in events`
PrEvent ==
    /\ pr_pc = "fold"
    /\ pr_i <= Len(pr_events)
    /\ LET data == json_loads(pr_events[pr_i].data)
       IN  IF ~data.ok
           THEN /\ pr_error' = Exception("JSONDecodeError", 0)
                /\ pr_pc' = "raised"
                /\ UNCHANGED <<pr_i, detected_language, text_parts, analysis>>
           ELSE /\ pr_i' = pr_i + 1
                /\ UNCHANGED <<pr_error, pr_pc>>
                /\ IF "detected_language" \in DOMAIN data.val
                   THEN /\ detected_language' = DetectedLanguage(data.val.detected_language)
                        /\ UNCHANGED <<text_parts, analysis>>
                   ELSE IF "delta" \in DOMAIN data.val
                   THEN /\ text_parts' = Append(text_parts, data.val.delta)
                        /\ UNCHANGED <<detected_language, analysis>>
                   ELSE IF "analysis" \in DOMAIN data.val
                   THEN /\ analysis' = ProofreadAnalysis(data.val.analysis)
                        /\ UNCHANGED <<detected_language, text_parts>>
                   ELSE UNCHANGED <<detected_language, text_parts, analysis>>
    /\ UNCHANGED <<pr_events, pr_result>>
    /\ UNCHANGED NotPr

\* return ProofreadResult(detected_language, "".join(text_parts), analysis)
PrReturn ==
    /\ pr_pc = "fold"
    /\ pr_i > Len(pr_events)
    /\ pr_result' = ProofreadResult(detected_language, concat(text_parts), analysis)
    /\ pr_pc' = "returned"
    /\ UNCHANGED <<pr_events, pr_i, detected_language, text_parts, analysis, pr_error>>
    /\ UNCHANGED NotPr

PrNext ==
    \/ PrHttpError
    \/ PrHttpOk
    \/ PrEvent
    \/ PrReturn

-----------------------------------------------------------------------------
(* parse_kagi_stream_lines *)

KlAlphabet == {NL, SP, "hi", ":", "<p>"}

KlTexts == UNION {[1..n -> KlAlphabet] : n \in 0..MaxKlText}

kl_raw_lines == split(kl_text)

\* raw.strip() == ""
IsBlank(line) == strip(line) = <<>>

\* _TAG_RE.match(raw) succeeds
IsTagLine(line) == TAG_RE_match(line) # NoLine

RECURSIVE SelectNonBlank(_)
SelectNonBlank(parts) ==
    IF parts = <<>> THEN <<>>
    ELSE IF IsBlank(parts[1]) THEN SelectNonBlank(Tail(parts))
    ELSE <<parts[1]>> \o SelectNonBlank(Tail(parts))

\* KlPayload without the filter: "\n".join(payload_parts)
KlPayload_Unfiltered(parts) == join(parts)

\* "\n".join(p for p in payload_parts if p.strip())
KlPayload(parts) == join(SelectNonBlank(parts))

KlIdle ==
    /\ kl_text = <<>>
    /\ kl_i = 1
    /\ kl_tag = None
    /\ payload_parts = <<>>
    /\ kl_lines = <<>>
    /\ kl_pc = "idle"

KlInit ==
    /\ kl_text \in KlTexts
    /\ kl_i = 1
    /\ kl_tag = None
    /\ payload_parts = <<>>
    /\ kl_lines = <<>>
    /\ kl_pc = "outer"

\* outer loop: a blank line is passed over
KlSkipBlank ==
    /\ kl_pc = "outer"
    /\ kl_i <= Len(kl_raw_lines)
    /\ IsBlank(kl_raw_lines[kl_i])
    /\ kl_i' = kl_i + 1
    /\ UNCHANGED <<kl_text, kl_tag, payload_parts, kl_lines, kl_pc>>
    /\ UNCHANGED NotKl

\* outer loop: a tag line opens a frame
KlTagLine ==
    /\ kl_pc = "outer"
    /\ kl_i <= Len(kl_raw_lines)
    /\ ~IsBlank(kl_raw_lines[kl_i])
    /\ IsTagLine(kl_raw_lines[kl_i])
    /\ LET m == TAG_RE_match(kl_raw_lines[kl_i])
       IN  /\ kl_tag' = m.tag
           /\ payload_parts' = <<m.payload>>
    /\ kl_i' = kl_i + 1
    /\ kl_pc' = "inner"
    /\ UNCHANGED <<kl_text, kl_lines>>
    /\ UNCHANGED NotKl

\* outer loop: a line that is no tag line, outside any frame, is dropped
KlDropLine ==
    /\ kl_pc = "outer"
    /\ kl_i <= Len(kl_raw_lines)
    /\ ~IsBlank(kl_raw_lines[kl_i])
    /\ ~IsTagLine(kl_raw_lines[kl_i])
    /\ kl_i' = kl_i + 1
    /\ UNCHANGED <<kl_text, kl_tag, payload_parts, kl_lines, kl_pc>>
    /\ UNCHANGED NotKl

\* inner loop: a blank line is passed over and does not end the frame
KlContBlank ==
    /\ kl_pc = "inner"
    /\ kl_i <= Len(kl_raw_lines)
    /\ IsBlank(kl_raw_lines[kl_i])
    /\ kl_i' = kl_i + 1
    /\ UNCHANGED <<kl_text, kl_tag, payload_parts, kl_lines, kl_pc>>
    /\ UNCHANGED NotKl

\* inner loop: a continuation line is appended as it is
KlContLine ==
    /\ kl_pc = "inner"
    /\ kl_i <= Len(kl_raw_lines)
    /\ ~IsBlank(kl_raw_lines[kl_i])
    /\ ~IsTagLine(kl_raw_lines[kl_i])
    /\ payload_parts' = Append(payload_parts, kl_raw_lines[kl_i])
    /\ kl_i' = kl_i + 1
    /\ UNCHANGED <<kl_text, kl_tag, kl_lines, kl_pc>>
    /\ UNCHANGED NotKl

\* inner loop left, at a tag line (break) or at the end of the text: the
\* frame is appended
KlFrameEnd ==
    /\ kl_pc = "inner"
    /\ \/ kl_i > Len(kl_raw_lines)
       \/ /\ kl_i <= Len(kl_raw_lines)
          /\ ~IsBlank(kl_raw_lines[kl_i])
          /\ IsTagLine(kl_raw_lines[kl_i])
    /\ kl_lines' = Append(kl_lines, [tag |-> kl_tag, payload |-> KlPayload(payload_parts)])
    /\ kl_pc' = "outer"
    /\ UNCHANGED <<kl_text, kl_i, kl_tag, payload_parts>>
    /\ UNCHANGED NotKl

\* return lines
KlReturn ==
    /\ kl_pc = "outer"
    /\ kl_i > Len(kl_raw_lines)
    /\ kl_pc' = "done"
    /\ UNCHANGED <<kl_text, kl_i, kl_tag, payload_parts, kl_lines>>
    /\ UNCHANGED NotKl

KlNext ==
    \/ KlSkipBlank
    \/ KlTagLine
    \/ KlDropLine
    \/ KlContBlank
    \/ KlContLine
    \/ KlFrameEnd
    \/ KlReturn

-----------------------------------------------------------------------------
(* The streaming entry points over their transport *)

StEntries == {"prompt_stream", "summarize_stream", "proofread_stream"}

\* the entry points that go through _request, which awaits client.get or
\* client.post and so returns once the whole body is read
StBuffered == {"summarize_stream", "proofread_stream"}

StFrames == {"a", "b"}

StIdle ==
    /\ st_entry = "none"
    /\ st_wire = <<>>
    /\ st_complete = FALSE
    /\ st_yielded = <<>>
    /\ st_pc = "idle"

\* the call is made and the server has answered 200; no body has arrived
StInit ==
    /\ st_entry \in StEntries
    /\ st_wire = <<>>
    /\ st_complete = FALSE
    /\ st_yielded = <<>>
    /\ st_pc = "request"

\* the transport: one more frame of the body arrives
StFrameArrives ==
    /\ st_pc # "idle"
    /\ ~st_complete
    /\ Len(st_wire) < MaxWire
    /\ \E f \in StFrames : st_wire' = Append(st_wire, f)
    /\ UNCHANGED <<st_entry, st_complete, st_yielded, st_pc>>
    /\ UNCHANGED NotSt

\* the transport: the body ends
StResponseCompletes ==
    /\ st_pc # "idle"
    /\ ~st_complete
    /\ st_complete' = TRUE
    /\ UNCHANGED <<st_entry, st_wire, st_yielded, st_pc>>
    /\ UNCHANGED NotSt

\* prompt_stream: client.stream gives the response before its body;
\* resp.aiter_lines() hands over each line that has arrived
StPromptStreamLine ==
    /\ st_entry = "prompt_stream"
    /\ st_pc = "request"
    /\ Len(st_yielded) < Len(st_wire)
    /\ st_yielded' = Append(st_yielded, st_wire[Len(st_yielded) + 1])
    /\ UNCHANGED <<st_entry, st_wire, st_complete, st_pc>>
    /\ UNCHANGED NotSt

\* prompt_stream: aiter_lines is exhausted when the body has ended
StPromptStreamEnd ==
    /\ st_entry = "prompt_stream"
    /\ st_pc = "request"
    /\ st_complete
    /\ Len(st_yielded) = Len(st_wire)
    /\ st_pc' = "done"
    /\ UNCHANGED <<st_entry, st_wire, st_complete, st_yielded>>
    /\ UNCHANGED NotSt

\* summarize_stream, proofread_stream: resp = await self._request(...) returns
\* when the body is complete; resp.text is then framed as a whole
StRequestReturns ==
    /\ st_entry \in StBuffered
    /\ st_pc = "request"
    /\ st_complete
    /\ st_pc' = "iterating"
    /\ UNCHANGED <<st_entry, st_wire, st_complete, st_yielded>>
    /\ UNCHANGED NotSt

\* summarize_stream, proofread_stream: one pass of the loop over the frames
StParsedFrame ==
    /\ st_entry \in StBuffered
    /\ st_pc = "iterating"
    /\ Len(st_yielded) < Len(st_wire)
    /\ st_yielded' = Append(st_yielded, st_wire[Len(st_yielded) + 1])
    /\ UNCHANGED <<st_entry, st_wire, st_complete, st_pc>>
    /\ UNCHANGED NotSt

\* summarize_stream, proofread_stream: the loop ends
StParsedEnd ==
    /\ st_entry \in StBuffered
    /\ st_pc = "iterating"
    /\ Len(st_yielded) = Len(st_wire)
    /\ st_pc' = "done"
    /\ UNCHANGED <<st_entry, st_wire, st_complete, st_yielded>>
    /\ UNCHANGED NotSt

\* the steps of the client
StClient ==
    \/ StPromptStreamLine
    \/ StPromptStreamEnd
    \/ StRequestReturns
    \/ StParsedFrame
    \/ StParsedEnd

StNext ==
    \/ StFrameArrives
    \/ StResponseCompletes
    \/ StClient

-----------------------------------------------------------------------------
(* The request of a capability call *)

RqEntries == {"proofread", "summarize", "prompt", "prompt_stream", "search"}

\* the status codes a server may answer with
RqStatuses == {200, 201, 204, 301, 401, 404, 500}

RqBodies == UNION {[1..n -> {"a", "<p>"}] : n \in 0..MaxBodyFrames}

\* APIError(message, status_code=..., body=...)
APIError(status_code, body) == [kind |-> "APIError", status_code |-> status_code, body |-> body]

NoAPIError == [kind |-> "none", status_code |-> 0, body |-> <<>>]

\* RqFailed with the test narrowed to server errors
RqFailed_ServerErrorsOnly(status_code) == status_code >= 500

\* if resp.status_code != 200
RqFailed(status_code) == status_code # 200

RqIdle ==
    /\ rq_entry = "none"
    /\ rq_requests = 0
    /\ rq_status = 0
    /\ rq_body = <<>>
    /\ rq_frames = 0
    /\ rq_error = NoAPIError
    /\ rq_pc = "idle"

\* a capability is called (for proofread, with the session token at hand)
RqInit ==
    /\ rq_entry \in RqEntries
    /\ rq_requests = 0
    /\ rq_status = 0
    /\ rq_body = <<>>
    /\ rq_frames = 0
    /\ rq_error = NoAPIError
    /\ rq_pc = "send"

\* client.get / client.post / client.stream: the request goes out
RqSend ==
    /\ rq_pc = "send"
    /\ rq_requests' = rq_requests + 1
    /\ rq_pc' = "wait"
    /\ UNCHANGED <<rq_entry, rq_status, rq_body, rq_frames, rq_error>>
    /\ UNCHANGED NotRq

\* the server answers
RqRespond ==
    /\ rq_pc = "wait"
    /\ rq_status' \in RqStatuses
    /\ rq_body' \in RqBodies
    /\ rq_pc' = "status"
    /\ UNCHANGED <<rq_entry, rq_requests, rq_frames, rq_error>>
    /\ UNCHANGED NotRq

\* raise APIError(..., status_code=resp.status_code, body=resp.text)
RqRaise ==
    /\ rq_pc = "status"
    /\ RqFailed(rq_status)
    /\ rq_error' = APIError(rq_status, rq_body)
    /\ rq_pc' = "raised"
    /\ UNCHANGED <<rq_entry, rq_requests, rq_status, rq_body, rq_frames>>
    /\ UNCHANGED NotRq

\* return resp: the caller goes on to the body
RqReturn ==
    /\ rq_pc = "status"
    /\ ~RqFailed(rq_status)
    /\ rq_pc' = "fold"
    /\ UNCHANGED <<rq_entry, rq_requests, rq_status, rq_body, rq_frames, rq_error>>
    /\ UNCHANGED NotRq

\* the reducer or generator takes one frame of the body
RqFrame ==
    /\ rq_pc = "fold"
    /\ rq_frames < Len(rq_body)
    /\ rq_frames' = rq_frames + 1
    /\ UNCHANGED <<rq_entry, rq_requests, rq_status, rq_body, rq_error, rq_pc>>
    /\ UNCHANGED NotRq

\* the body is exhausted
RqEnd ==
    /\ rq_pc = "fold"
    /\ rq_frames = Len(rq_body)
    /\ rq_pc' = "done"
    /\ UNCHANGED <<rq_entry, rq_requests, rq_status, rq_body, rq_frames, rq_error>>
    /\ UNCHANGED NotRq

RqNext ==
    \/ RqSend
    \/ RqRespond
    \/ RqRaise
    \/ RqReturn
    \/ RqFrame
    \/ RqEnd

-----------------------------------------------------------------------------
(* _parse_search_items *)

HtmlAlphabet == {ResultMarker, TitleLink1, TitleLink2, DescDiv, DateSpan, ArchiveLink, "<p>", NL}

Htmls == UNION {[1..n -> HtmlAlphabet] : n \in 0..MaxHtml}

\* the groups of each match: group(1) and, for the title, the text of group(2)
\* after _extract_text
TitleLinks ==
    (TitleLink1 :> [url |-> <<"u1">>, title |-> <<"t1">>])
    @@ (TitleLink2 :> [url |-> <<"u2">>, title |-> <<"t2">>])
DescDivs == (DescDiv :> <<"d1">>)
DateSpans == (DateSpan :> <<"Feb 12">>)
ArchiveLinks == (ArchiveLink :> <<"https://web.archive.org/u1">>)

\* re.search over a block: the first position that holds a match, 0 for none
Search(table, block) ==
    IF \E k \in 1..Len(block) : block[k] \in DOMAIN table
    THEN CHOOSE k \in 1..Len(block) :
             block[k] \in DOMAIN table /\ \A j \in 1..(k - 1) : block[j] \notin DOMAIN table
    ELSE 0

\* starts = [m.start() for m in _RESULT_BLOCK_RE.finditer(html)], as a set
Starts(html) == {k \in 1..Len(html) : html[k] = ResultMarker}

\* the block that starts at start: html[start:end]
BlockAt(html, start) ==
    LET later == {k \in Starts(html) : k > start}
        end == IF later = {} THEN Len(html) + 1
               ELSE CHOOSE k \in later : \A j \in later : k <= j
    IN  Slice(html, start, end - 1)

\* HtmlBlocks with the text ahead of the first marker taken as a block
RECURSIVE HtmlBlocksFrom(_, _)
HtmlBlocksFrom(html, n) ==
    IF n = 0 THEN <<>>
    ELSE IF n \in Starts(html)
         THEN Append(HtmlBlocksFrom(html, n - 1), BlockAt(html, n))
         ELSE HtmlBlocksFrom(html, n - 1)

HtmlBlocks_WithLead(html) ==
    IF Starts(html) = {} THEN <<>>
    ELSE LET first == CHOOSE k \in Starts(html) : \A j \in Starts(html) : k <= j
         IN  <<Slice(html, 1, first - 1)>> \o HtmlBlocksFrom(html, Len(html))

\* blocks: one per start, in order
HtmlBlocks(html) == HtmlBlocksFrom(html, Len(html))

SearchItem(block) ==
    LET title_m == Search(TitleLinks, block)
        desc_m == Search(DescDivs, block)
        date_m == Search(DateSpans, block)
        archive_m == Search(ArchiveLinks, block)
    IN  [title |-> TitleLinks[block[title_m]].title,
         url |-> TitleLinks[block[title_m]].url,
         description |-> IF desc_m # 0 THEN DescDivs[block[desc_m]] ELSE <<>>,
         web_archive_url |-> IF archive_m # 0 THEN ArchiveLinks[block[archive_m]] ELSE None,
         date |-> IF date_m # 0 THEN DateSpans[block[date_m]] ELSE None]

\* the whole of _parse_search_items, for its callers
RECURSIVE ItemsOf(_)
ItemsOf(bs) ==
    IF bs = <<>> THEN <<>>
    ELSE IF Search(TitleLinks, bs[1]) = 0 THEN ItemsOf(Tail(bs))
    ELSE <<SearchItem(bs[1])>> \o ItemsOf(Tail(bs))

parse_search_items(html) == ItemsOf(HtmlBlocks(html))

ItIdle ==
    /\ it_html = <<>>
    /\ blocks = <<>>
    /\ it_k = 1
    /\ items = <<>>
    /\ it_pc = "idle"

ItInit ==
    /\ it_html \in Htmls
    /\ blocks = <<>>
    /\ it_k = 1
    /\ items = <<>>
    /\ it_pc = "split"

\* if not starts: return items
ItNoStarts ==
    /\ it_pc = "split"
    /\ Starts(it_html) = {}
    /\ it_pc' = "done"
    /\ UNCHANGED <<it_html, blocks, it_k, items>>
    /\ UNCHANGED NotIt

\* the html is cut into blocks
ItSplit ==
    /\ it_pc = "split"
    /\ Starts(it_html) # {}
    /\ blocks' = HtmlBlocks(it_html)
    /\ it_pc' = "loop"
    /\ UNCHANGED <<it_html, it_k, items>>
    /\ UNCHANGED NotIt

\* for block in blocks: no title link, continue
ItBlockSkipped ==
    /\ it_pc = "loop"
    /\ it_k <= Len(blocks)
    /\ Search(TitleLinks, blocks[it_k]) = 0
    /\ it_k' = it_k + 1
    /\ UNCHANGED <<it_html, blocks, items, it_pc>>
    /\ UNCHANGED NotIt

\* for block in blocks: a title link, the item is appended
ItBlockItem ==
    /\ it_pc = "loop"
    /\ it_k <= Len(blocks)
    /\ Search(TitleLinks, blocks[it_k]) # 0
    /\ items' = Append(items, SearchItem(blocks[it_k]))
    /\ it_k' = it_k + 1
    /\ UNCHANGED <<it_html, blocks, it_pc>>
    /\ UNCHANGED NotIt

\* return items
ItReturn ==
    /\ it_pc = "loop"
    /\ it_k > Len(blocks)
    /\ it_pc' = "done"
    /\ UNCHANGED <<it_html, blocks, it_k, items>>
    /\ UNCHANGED NotIt

ItNext ==
    \/ ItNoStarts
    \/ ItSplit
    \/ ItBlockSkipped
    \/ ItBlockItem
    \/ ItReturn

-----------------------------------------------------------------------------
(* SearchClient.search, _parse_search_response *)

SrData ==
    {<<EvHtml>>, <<EvHtmlInfo>>, <<EvInfos>>, <<EvDomains>>, <<EvDomainsStr>>,
     <<EvDomainsBad>>, <<EvNotArray>>, <<"<p>">>, <<>>, <<SP>>}

SrStreams == UNION {[1..n -> {SSEEvent(None, d, None) : d \in SrData}] : n \in 0..MaxSrEvents}

SearchInfo(payload) ==
    [share_url |-> Get(payload, "share_url", <<>>),
     curr_batch |-> Get(payload, "curr_batch", 1),
     curr_piece |-> Get(payload, "curr_piece", 1),
     next_batch |-> Get(payload, "next_batch", -1),
     next_piece |-> Get(payload, "next_piece", 1)]

\* the SearchInfo of a response without search.info
DefaultInfo ==
    [share_url |-> <<>>, curr_batch |-> 1, curr_piece |-> 1, next_batch |-> -1, next_piece |-> 1]

NoInfo ==
    [share_url |-> None, curr_batch |-> 0, curr_piece |-> 0, next_batch |-> 0, next_piece |-> 0]

DomainInfo(d) ==
    [domain |-> Get(d, "domain", <<>>),
     favicon_url |-> Get(d, "favicon_url", None),
     domain_secure |-> Get(d, "domain_secure", None),
     trackers |-> Get(d, "trackers", None),
     registration_date |-> Get(d, "registration_date", None),
     website_speed |-> Get(d, "website_speed", None),
     rule_type |-> Get(d, "rule_type", None),
     description |-> Get(d, "description", None)]

\* [DomainInfo(d) for d in raw.get("data", [])]
DomainInfosOf(raw) ==
    LET data == Get(raw, "data", <<>>)
    IN  [k \in 1..Len(data) |-> DomainInfo(data[k])]

\* the locals of the fold
Acc(parts, i, ds, err) ==
    [search_html_parts |-> parts, info |-> i, domain_infos |-> ds, error |-> err]

\* the body of `for item in items`, on the locals acc
FoldItem(acc, item) ==
    LET tag == item.tag
        payload == item.payload
    IN  IF tag = <<"search">>
        THEN IF IsDict(payload)
             THEN [acc EXCEPT !.search_html_parts = Append(@, Get(payload.val, "content", <<>>))]
             ELSE IF IsStr(payload)
             THEN [acc EXCEPT !.search_html_parts = Append(@, payload.val)]
             ELSE acc
        ELSE IF tag = <<"search.info">>
        THEN IF IsDict(payload)
             THEN [acc EXCEPT !.info = SearchInfo(payload.val)]
             ELSE acc
        ELSE IF tag = <<"domain_info">>
        THEN IF IsStr(payload)
             THEN LET raw == json_loads(payload.val)
                  IN  IF raw.ok
                      THEN [acc EXCEPT !.domain_infos = @ \o DomainInfosOf(raw.val)]
                      ELSE [acc EXCEPT !.error = "JSONDecodeError"]
             ELSE IF IsDict(payload)
             THEN [acc EXCEPT !.domain_infos = @ \o DomainInfosOf(payload.val)]
             ELSE acc
        ELSE acc

\* `for item in items`, left at the first exception
RECURSIVE FoldItems(_, _)
FoldItems(acc, its) ==
    IF its = <<>> \/ acc.error # NoError THEN acc
    ELSE FoldItems(FoldItem(acc, its[1]), Tail(its))

SearchResult(html, i, ds) ==
    [search_html |-> html, info |-> i, items |-> parse_search_items(html), domain_infos |-> ds]

NoSearchResult == [search_html |-> None, info |-> NoInfo, items |-> <<>>, domain_infos |-> <<>>]

SrIdle ==
    /\ sr_events = <<>>
    /\ sr_i = 1
    /\ search_html_parts = <<>>
    /\ info = NoInfo
    /\ domain_infos = <<>>
    /\ sr_result = NoSearchResult
    /\ sr_error = NoError
    /\ sr_pc = "idle"

SrInit ==
    /\ sr_events = <<>>
    /\ sr_i = 1
    /\ search_html_parts = <<>>
    /\ info = NoInfo
    /\ domain_infos = <<>>
    /\ sr_result = NoSearchResult
    /\ sr_error = NoError
    /\ sr_pc = "request"

\* _request: resp.status_code != 200
SrHttpError ==
    /\ sr_pc = "request"
    /\ sr_error' = "APIError"
    /\ sr_pc' = "raised"
    /\ UNCHANGED <<sr_events, sr_i, search_html_parts, info, domain_infos, sr_result>>
    /\ UNCHANGED NotSr

\* _request returns; _parse_search_response frames the text
SrHttpOk ==
    /\ sr_pc = "request"
    /\ sr_events' \in SrStreams
    /\ sr_pc' = "fold"
    /\ UNCHANGED <<sr_i, search_html_parts, info, domain_infos, sr_result, sr_error>>
    /\ UNCHANGED NotSr

\* one pass of `for event in events`: data that is empty, blank, not JSON or
\* not an array is passed over
SrEventSkipped ==
    /\ sr_pc = "fold"
    /\ sr_i <= Len(sr_events)
    /\ LET data == sr_events[sr_i].data
       IN  \/ data = <<>>
           \/ strip(data) = <<>>
           \/ ~json_loads(data).ok
           \/ ~IsList(json_loads(data).val)
    /\ sr_i' = sr_i + 1
    /\ UNCHANGED <<sr_events, search_html_parts, info, domain_infos, sr_result, sr_error, sr_pc>>
    /\ UNCHANGED NotSr

\* one pass of `for event in events`: the items of an array are folded
SrEvent ==
    /\ sr_pc = "fold"
    /\ sr_i <= Len(sr_events)
    /\ LET data == sr_events[sr_i].data
       IN  /\ strip(data) # <<>>
           /\ json_loads(data).ok
           /\ IsList(json_loads(data).val)
           /\ LET acc == FoldItems(Acc(search_html_parts, info, domain_infos, NoError),
                                   json_loads(data).val.val)
              IN  /\ search_html_parts' = acc.search_html_parts
                  /\ info' = acc.info
                  /\ domain_infos' = acc.domain_infos
                  /\ sr_error' = acc.error
                  /\ IF acc.error = NoError
                     THEN sr_i' = sr_i + 1 /\ UNCHANGED sr_pc
                     ELSE sr_pc' = "raised" /\ UNCHANGED sr_i
    /\ UNCHANGED <<sr_events, sr_result>>
    /\ UNCHANGED NotSr

\* after the loop: the default info, the joined HTML, the result
SrReturn ==
    /\ sr_pc = "fold"
    /\ sr_i > Len(sr_events)
    /\ sr_result' = SearchResult(join(search_html_parts),
                                 IF info = NoInfo THEN DefaultInfo ELSE info,
                                 domain_infos)
    /\ sr_pc' = "returned"
    /\ UNCHANGED <<sr_events, sr_i, search_html_parts, info, domain_infos, sr_error>>
    /\ UNCHANGED NotSr

SrNext ==
    \/ SrHttpError
    \/ SrHttpOk
    \/ SrEventSkipped
    \/ SrEvent
    \/ SrReturn

-----------------------------------------------------------------------------
(* KagiAuth.get_valid_token, refresh_token; the token step of proofread *)

\* a bearer token, by the exp claim decode_token reads from it
Token(exp) == [exp |-> exp]
NoToken == [exp |-> -1]
Tokens == {Token(exp) : exp \in 0..MaxExp}

AuEntries == {"get_valid_token", "proofread"}
AuStatuses == {200, 401, 500}

\* the classes of errors.py, each with the classes it is an instance of
Mro ==
    [KagiError |-> {"KagiError"},
     AuthError |-> {"AuthError", "KagiError"},
     TokenExpiredError |-> {"TokenExpiredError", "AuthError", "KagiError"},
     StreamParseError |-> {"StreamParseError", "KagiError"},
     APIError |-> {"APIError", "KagiError"}]

isinstance(e, cls) == e \in DOMAIN Mro /\ cls \in Mro[e]

\* int(time.time()): whole seconds, the fraction cut off
int(now) == now \div 2

\* is_token_expired with the comparison made strict
is_token_expired_Strict(t, now) == t.exp < int(now)

\* payload.exp <= int(time.time())
is_token_expired(t, now) == t.exp <= int(now)

AuIdle ==
    /\ au_entry = "none"
    /\ token = NoToken
    /\ au_at_call = NoToken
    /\ au_now = 0
    /\ au_refreshes = 0
    /\ au_status = 0
    /\ au_served = NoToken
    /\ au_returned = NoToken
    /\ au_posts = 0
    /\ au_error = NoError
    /\ au_pc = "idle"

\* a KagiAuth just constructed, and a first call
AuInit ==
    /\ au_entry \in AuEntries
    /\ token = NoToken
    /\ au_at_call = NoToken
    /\ au_now \in 0..MaxNow
    /\ au_refreshes = 0
    /\ au_status = 0
    /\ au_served = NoToken
    /\ au_returned = NoToken
    /\ au_posts = 0
    /\ au_error = NoError
    /\ au_pc = "call"

\* get_valid_token: the cached token is there and not expired
AuCached ==
    /\ au_pc = "call"
    /\ token # NoToken
    /\ ~is_token_expired(token, au_now)
    /\ au_returned' = token
    /\ au_pc' = "got_token"
    /\ UNCHANGED <<au_entry, token, au_at_call, au_now, au_refreshes, au_status, au_served,
                   au_posts, au_error>>
    /\ UNCHANGED NotAu

\* get_valid_token: no token, or an expired one; refresh_token sends its request
AuRefresh ==
    /\ au_pc = "call"
    /\ token = NoToken \/ is_token_expired(token, au_now)
    /\ au_refreshes' = au_refreshes + 1
    /\ au_pc' = "refreshing"
    /\ UNCHANGED <<au_entry, token, au_at_call, au_now, au_status, au_served, au_returned,
                   au_posts, au_error>>
    /\ UNCHANGED NotAu

\* the token endpoint answers
AuAnswer ==
    /\ au_pc = "refreshing"
    /\ au_status' \in AuStatuses
    /\ au_served' \in Tokens
    /\ au_pc' = "answered"
    /\ UNCHANGED <<au_entry, token, au_at_call, au_now, au_refreshes, au_returned,
                   au_posts, au_error>>
    /\ UNCHANGED NotAu

\* AuRefreshRaise with the cache dropped
AuRefreshRaise_DropsCache ==
    /\ au_pc = "answered"
    /\ au_status # 200
    /\ au_error' = "AuthError"
    /\ token' = NoToken
    /\ au_pc' = "raised"
    /\ UNCHANGED <<au_entry, au_at_call, au_now, au_refreshes, au_status, au_served,
                   au_returned, au_posts>>
    /\ UNCHANGED NotAu

\* refresh_token: resp.status_code != 200, raise AuthError
AuRefreshRaise ==
    /\ au_pc = "answered"
    /\ au_status # 200
    /\ au_error' = "AuthError"
    /\ au_pc' = "raised"
    /\ UNCHANGED <<au_entry, token, au_at_call, au_now, au_refreshes, au_status, au_served,
                   au_returned, au_posts>>
    /\ UNCHANGED NotAu

\* refresh_token: self._token = data["token"]; return self._token
AuRefreshStore ==
    /\ au_pc = "answered"
    /\ au_status = 200
    /\ token' = au_served
    /\ au_returned' = au_served
    /\ au_pc' = "got_token"
    /\ UNCHANGED <<au_entry, au_at_call, au_now, au_refreshes, au_status, au_served,
                   au_posts, au_error>>
    /\ UNCHANGED NotAu

\* get_valid_token returns to its caller
AuReturn ==
    /\ au_pc = "got_token"
    /\ au_entry = "get_valid_token"
    /\ au_pc' = "done"
    /\ UNCHANGED <<au_entry, token, au_at_call, au_now, au_refreshes, au_status, au_served,
                   au_returned, au_posts, au_error>>
    /\ UNCHANGED NotAu

\* ProofreadClient._request: with the token, the proofread request is sent
AuProofreadPost ==
    /\ au_pc = "got_token"
    /\ au_entry = "proofread"
    /\ au_posts' = au_posts + 1
    /\ au_pc' = "done"
    /\ UNCHANGED <<au_entry, token, au_at_call, au_now, au_refreshes, au_status, au_served,
                   au_returned, au_error>>
    /\ UNCHANGED NotAu

\* a later call on the same KagiAuth: time has passed, the cache is kept
AuNextCall ==
    /\ au_pc \in {"done", "raised"}
    /\ au_entry' \in AuEntries
    /\ au_now' \in au_now..MaxNow
    /\ au_at_call' = token
    /\ au_refreshes' = 0
    /\ au_status' = 0
    /\ au_served' = NoToken
    /\ au_returned' = NoToken
    /\ au_posts' = 0
    /\ au_error' = NoError
    /\ au_pc' = "call"
    /\ UNCHANGED token
    /\ UNCHANGED NotAu

AuNext ==
    \/ AuCached
    \/ AuRefresh
    \/ AuAnswer
    \/ AuRefreshRaise
    \/ AuRefreshStore
    \/ AuReturn
    \/ AuProofreadPost
    \/ AuNextCall

-----------------------------------------------------------------------------
(* parse_sse_events as a function of its text, and its frames written back *)

\* the locals of parse_sse_events
SseLocals(e, d, i, evs) == [current_event |-> e, current_data |-> d, current_id |-> i, events |-> evs]

\* one pass of `for line in text.split("\n")`
SsePass(loc, line) ==
    IF line = <<>>
    THEN SseLocals(None, <<>>, None,
                   IF loc.current_data # <<>>
                   THEN Append(loc.events,
                               SSEEvent(loc.current_event, join(loc.current_data), loc.current_id))
                   ELSE loc.events)
    ELSE IF startswith(line, "event:")
    THEN [loc EXCEPT !.current_event = FieldValue(line)]
    ELSE IF startswith(line, "data:")
    THEN [loc EXCEPT !.current_data = Append(loc.current_data, FieldValue(line))]
    ELSE IF startswith(line, "id:")
    THEN [loc EXCEPT !.current_id = FieldValue(line)]
    ELSE loc

\* the locals after the first n lines
RECURSIVE SsePasses(_, _)
SsePasses(lines, n) ==
    IF n = 0 THEN SseLocals(None, <<>>, None, <<>>)
    ELSE SsePass(SsePasses(lines, n - 1), lines[n])

parse_sse_events(text) == SsePasses(split(text), Len(split(text))).events

\* the lines terminated by a newline each
RECURSIVE unlines(_)
unlines(lines) == IF lines = <<>> THEN <<>> ELSE lines[1] \o <<NL>> \o unlines(Tail(lines))

\* a frame written back as SSE text: an event: line and an id: line when the
\* frame has the field, one data: line per newline-separated part of its data,
\* then a blank line
DataLines(data) == [k \in 1..Len(split(data)) |-> <<"data:", SP>> \o split(data)[k]]

Serialized(frame) ==
    unlines((IF frame.event # None THEN <<<<"event:", SP>> \o frame.event>> ELSE <<>>)
            \o (IF frame.id # None THEN <<<<"id:", SP>> \o frame.id>> ELSE <<>>)
            \o DataLines(frame.data)
            \o <<<<>>>>)

\* the SSE texts that a blank line terminates
RfTexts == {t \o <<NL, NL>> : t \in UNION {[1..n -> SseAlphabet] : n \in 0..MaxRfText}}

RfIdle ==
    /\ rf_text = <<>>
    /\ rf_frames = <<>>
    /\ rf_n = 0
    /\ rf_again = <<>>
    /\ rf_pc = "idle"

RfInit ==
    /\ rf_text \in RfTexts
    /\ rf_frames = <<>>
    /\ rf_n = 0
    /\ rf_again = <<>>
    /\ rf_pc = "start"

\* events = parse_sse_events(text)
RfFrame ==
    /\ rf_pc = "start"
    /\ rf_frames' = parse_sse_events(rf_text)
    /\ rf_pc' = "framed"
    /\ UNCHANGED <<rf_text, rf_n, rf_again>>
    /\ UNCHANGED NotRf

\* parse_sse_events applied to one of the frames, written back as lines
RfReframe ==
    /\ rf_pc = "framed"
    /\ \E n \in 1..Len(rf_frames) :
           /\ rf_n' = n
           /\ rf_again' = parse_sse_events(Serialized(rf_frames[n]))
    /\ rf_pc' = "reframed"
    /\ UNCHANGED <<rf_text, rf_frames>>
    /\ UNCHANGED NotRf

RfNext ==
    \/ RfFrame
    \/ RfReframe

-----------------------------------------------------------------------------
(* The two classifiers of a line: parse_kagi_stream_lines and                *)
(* parse_kagi_stream_line                                                    *)

ClAlphabet == {SP, "hi", ":", "<p>"}

ClLines == UNION {[1..n -> ClAlphabet] : n \in 0..MaxClLine}

\* not yet classified
Unclassified == [tag |-> <<"<unclassified>">>, payload |-> <<>>]

ClIdle ==
    /\ cl_line = <<>>
    /\ cl_batch = Unclassified
    /\ cl_single = Unclassified
    /\ cl_pc = "idle"

ClInit ==
    /\ cl_line \in ClLines
    /\ cl_batch = Unclassified
    /\ cl_single = Unclassified
    /\ cl_pc = "start"

ClStep == IF cl_pc = "start" THEN "one" ELSE "done"

\* parse_kagi_stream_lines on the line: m = _TAG_RE.match(raw), then
\* tag = m.group(1) and payload_parts = [m.group(2)]; a blank line is passed
\* over before the match
ClBatch ==
    /\ cl_pc \in {"start", "one"}
    /\ cl_batch = Unclassified
    /\ cl_batch' = IF IsBlank(cl_line) THEN NoLine ELSE TAG_RE_match(cl_line)
    /\ cl_pc' = ClStep
    /\ UNCHANGED <<cl_line, cl_single>>
    /\ UNCHANGED NotCl

\* parsed = parse_kagi_stream_line(line), as prompt_stream calls it
ClSingle ==
    /\ cl_pc \in {"start", "one"}
    /\ cl_single = Unclassified
    /\ cl_single' = parse_kagi_stream_line(cl_line)
    /\ cl_pc' = ClStep
    /\ UNCHANGED <<cl_line, cl_batch>>
    /\ UNCHANGED NotCl

ClNext ==
    \/ ClBatch
    \/ ClSingle

-----------------------------------------------------------------------------
(* Concurrent proofread calls on one KagiClient *)

Calls == 1..MaxCalls

CcTokens == {Token(exp) : exp \in 1..MaxCcExp}

\* the responses: frames with a delta, and frames that are not JSON
CcData == {<<DeltaHel>>, <<"<p>">>}

CcStreams == UNION {[1..n -> {SSEEvent(None, d, None) : d \in CcData}] : n \in 0..MaxCcEvents}

\* the locals of _parse_proofread_response
PrLocals(dl, parts, a) == [detected_language |-> dl, text_parts |-> parts, analysis |-> a]

\* one pass of `for event in events` on the locals, data being decodable
PrPass(loc, data) ==
    IF "detected_language" \in DOMAIN data
    THEN [loc EXCEPT !.detected_language = DetectedLanguage(data.detected_language)]
    ELSE IF "delta" \in DOMAIN data
    THEN [loc EXCEPT !.text_parts = Append(loc.text_parts, data.delta)]
    ELSE IF "analysis" \in DOMAIN data
    THEN [loc EXCEPT !.analysis = ProofreadAnalysis(data.analysis)]
    ELSE loc

CcIdle ==
    /\ cc_token = NoToken
    /\ cc_granted = {}
    /\ cc_now = 0
    /\ cc_session = [c \in Calls |-> NoToken]
    /\ cc_events = [c \in Calls |-> <<>>]
    /\ cc_i = [c \in Calls |-> 1]
    /\ cc_locals = [c \in Calls |-> PrLocals(NoLanguage, <<>>, NoAnalysis)]
    /\ cc_result = [c \in Calls |-> NoProofread]
    /\ cc_error = [c \in Calls |-> NoException]
    /\ cc_pc = [c \in Calls |-> "idle"]

\* KagiClient.__init__: one KagiAuth, its cache empty; the calls are started
CcInit ==
    /\ cc_token = NoToken
    /\ cc_granted = {}
    /\ cc_now = 0
    /\ cc_session = [c \in Calls |-> NoToken]
    /\ cc_events = [c \in Calls |-> <<>>]
    /\ cc_i = [c \in Calls |-> 1]
    /\ cc_locals = [c \in Calls |-> PrLocals(NoLanguage, <<>>, NoAnalysis)]
    /\ cc_result = [c \in Calls |-> NoProofread]
    /\ cc_error = [c \in Calls |-> NoException]
    /\ cc_pc = [c \in Calls |-> "token"]

\* the clock advances
CcTick ==
    /\ cc_now < MaxCcNow
    /\ \E c \in Calls : cc_pc[c] \notin {"returned", "raised"}
    /\ cc_now' = cc_now + 1
    /\ UNCHANGED <<cc_token, cc_granted, cc_session, cc_events, cc_i, cc_locals,
                   cc_result, cc_error, cc_pc>>
    /\ UNCHANGED NotCc

\* get_valid_token: the cached token is there and has not expired
CcCached(c) ==
    /\ cc_pc[c] = "token"
    /\ cc_token # NoToken
    /\ ~is_token_expired(cc_token, cc_now)
    /\ cc_session' = [cc_session EXCEPT ![c] = cc_token]
    /\ cc_pc' = [cc_pc EXCEPT ![c] = "post"]
    /\ UNCHANGED <<cc_token, cc_granted, cc_now, cc_events, cc_i, cc_locals,
                   cc_result, cc_error>>
    /\ UNCHANGED NotCc

\* get_valid_token: no usable token, refresh_token sends its request
CcRefresh(c) ==
    /\ cc_pc[c] = "token"
    /\ cc_token = NoToken \/ is_token_expired(cc_token, cc_now)
    /\ cc_pc' = [cc_pc EXCEPT ![c] = "refreshing"]
    /\ UNCHANGED <<cc_token, cc_granted, cc_now, cc_session, cc_events, cc_i,
                   cc_locals, cc_result, cc_error>>
    /\ UNCHANGED NotCc

\* refresh_token: the answer is 200; self._token = data["token"]
CcRefreshStore(c) ==
    /\ cc_pc[c] = "refreshing"
    /\ \E t \in CcTokens :
           /\ cc_token' = t
           /\ cc_granted' = cc_granted \cup {t}
           /\ cc_session' = [cc_session EXCEPT ![c] = t]
    /\ cc_pc' = [cc_pc EXCEPT ![c] = "post"]
    /\ UNCHANGED <<cc_now, cc_events, cc_i, cc_locals, cc_result, cc_error>>
    /\ UNCHANGED NotCc

\* refresh_token: the answer is not 200; raise AuthError
CcRefreshRaise(c) ==
    /\ cc_pc[c] = "refreshing"
    /\ cc_error' = [cc_error EXCEPT ![c] = Exception("AuthError", 0)]
    /\ cc_pc' = [cc_pc EXCEPT ![c] = "raised"]
    /\ UNCHANGED <<cc_token, cc_granted, cc_now, cc_session, cc_events, cc_i,
                   cc_locals, cc_result>>
    /\ UNCHANGED NotCc

\* _request: await client.post(...)
CcPost(c) ==
    /\ cc_pc[c] = "post"
    /\ cc_pc' = [cc_pc EXCEPT ![c] = "await"]
    /\ UNCHANGED <<cc_token, cc_granted, cc_now, cc_session, cc_events, cc_i,
                   cc_locals, cc_result, cc_error>>
    /\ UNCHANGED NotCc

\* _request: resp.status_code != 200
CcHttpError(c) ==
    /\ cc_pc[c] = "await"
    /\ cc_error' = [cc_error EXCEPT ![c] = Exception("APIError", 500)]
    /\ cc_pc' = [cc_pc EXCEPT ![c] = "raised"]
    /\ UNCHANGED <<cc_token, cc_granted, cc_now, cc_session, cc_events, cc_i,
                   cc_locals, cc_result>>
    /\ UNCHANGED NotCc

\* _request returns; _parse_proofread_response frames the text of the call
CcHttpOk(c) ==
    /\ cc_pc[c] = "await"
    /\ \E evs \in CcStreams : cc_events' = [cc_events EXCEPT ![c] = evs]
    /\ cc_pc' = [cc_pc EXCEPT ![c] = "fold"]
    /\ UNCHANGED <<cc_token, cc_granted, cc_now, cc_session, cc_i, cc_locals,
                   cc_result, cc_error>>
    /\ UNCHANGED NotCc

\* CcEvent with text_parts one list for all the calls: a delta is appended to
\* the list every call reads
CcEvent_SharedParts(c) ==
    /\ cc_pc[c] = "fold"
    /\ cc_i[c] <= Len(cc_events[c])
    /\ LET data == json_loads(cc_events[c][cc_i[c]].data)
       IN  IF ~data.ok
           THEN /\ cc_error' = [cc_error EXCEPT ![c] = Exception("JSONDecodeError", 0)]
                /\ cc_pc' = [cc_pc EXCEPT ![c] = "raised"]
                /\ UNCHANGED <<cc_i, cc_locals>>
           ELSE /\ cc_locals' = [d \in Calls |-> PrPass(cc_locals[d], data.val)]
                /\ cc_i' = [cc_i EXCEPT ![c] = cc_i[c] + 1]
                /\ UNCHANGED <<cc_error, cc_pc>>
    /\ UNCHANGED <<cc_token, cc_granted, cc_now, cc_session, cc_events, cc_result>>
    /\ UNCHANGED NotCc

\* one pass of `for event in events` of the call
CcEvent(c) ==
    /\ cc_pc[c] = "fold"
    /\ cc_i[c] <= Len(cc_events[c])
    /\ LET data == json_loads(cc_events[c][cc_i[c]].data)
       IN  IF ~data.ok
           THEN /\ cc_error' = [cc_error EXCEPT ![c] = Exception("JSONDecodeError", 0)]
                /\ cc_pc' = [cc_pc EXCEPT ![c] = "raised"]
                /\ UNCHANGED <<cc_i, cc_locals>>
           ELSE /\ cc_locals' = [cc_locals EXCEPT ![c] = PrPass(cc_locals[c], data.val)]
                /\ cc_i' = [cc_i EXCEPT ![c] = cc_i[c] + 1]
                /\ UNCHANGED <<cc_error, cc_pc>>
    /\ UNCHANGED <<cc_token, cc_granted, cc_now, cc_session, cc_events, cc_result>>
    /\ UNCHANGED NotCc

\* return ProofreadResult(detected_language, "".join(text_parts), analysis)
CcReturn(c) ==
    /\ cc_pc[c] = "fold"
    /\ cc_i[c] > Len(cc_events[c])
    /\ cc_result' = [cc_result EXCEPT ![c] =
                        ProofreadResult(cc_locals[c].detected_language,
                                        concat(cc_locals[c].text_parts),
                                        cc_locals[c].analysis)]
    /\ cc_pc' = [cc_pc EXCEPT ![c] = "returned"]
    /\ UNCHANGED <<cc_token, cc_granted, cc_now, cc_session, cc_events, cc_i,
                   cc_locals, cc_error>>
    /\ UNCHANGED NotCc

CcNext ==
    \/ CcTick
    \/ \E c \in Calls : CcCached(c)
    \/ \E c \in Calls : CcRefresh(c)
    \/ \E c \in Calls : CcRefreshStore(c)
    \/ \E c \in Calls : CcRefreshRaise(c)
    \/ \E c \in Calls : CcPost(c)
    \/ \E c \in Calls : CcHttpError(c)
    \/ \E c \in Calls : CcHttpOk(c)
    \/ \E c \in Calls : CcEvent(c)
    \/ \E c \in Calls : CcReturn(c)

-----------------------------------------------------------------------------
(* Specifications, one per entry point *)

InitSSE == SseInit /\ PsIdle /\ SaIdle /\ SumIdle /\ AsIdle /\ PrIdle /\ KlIdle /\ StIdle /\ RqIdle /\ ItIdle /\ SrIdle /\ AuIdle /\ RfIdle /\ ClIdle /\ CcIdle

SpecSSE == InitSSE /\ [][SseNext]_vars

InitPromptStream == PsInit /\ SseIdle /\ SaIdle /\ SumIdle /\ AsIdle /\ PrIdle /\ KlIdle /\ StIdle /\ RqIdle /\ ItIdle /\ SrIdle /\ AuIdle /\ RfIdle /\ ClIdle /\ CcIdle

SpecPromptStream == InitPromptStream /\ [][PsNext]_vars

InitSearchAll == SaInit /\ SseIdle /\ PsIdle /\ SumIdle /\ AsIdle /\ PrIdle /\ KlIdle /\ StIdle /\ RqIdle /\ ItIdle /\ SrIdle /\ AuIdle /\ RfIdle /\ ClIdle /\ CcIdle

SpecSearchAll == InitSearchAll /\ [][SaNext]_vars

InitSummarizer == SumInit /\ SseIdle /\ PsIdle /\ SaIdle /\ AsIdle /\ PrIdle /\ KlIdle /\ StIdle /\ RqIdle /\ ItIdle /\ SrIdle /\ AuIdle /\ RfIdle /\ ClIdle /\ CcIdle

SpecSummarizer == InitSummarizer /\ [][SumNext]_vars

InitAssistant == AsInit /\ SseIdle /\ PsIdle /\ SaIdle /\ SumIdle /\ PrIdle /\ KlIdle /\ StIdle /\ RqIdle /\ ItIdle /\ SrIdle /\ AuIdle /\ RfIdle /\ ClIdle /\ CcIdle

SpecAssistant == InitAssistant /\ [][AsNext]_vars

InitProofread == PrInit /\ SseIdle /\ PsIdle /\ SaIdle /\ SumIdle /\ AsIdle /\ KlIdle /\ StIdle /\ RqIdle /\ ItIdle /\ SrIdle /\ AuIdle /\ RfIdle /\ ClIdle /\ CcIdle

SpecProofread == InitProofread /\ [][PrNext]_vars

InitKagiLines == KlInit /\ SseIdle /\ PsIdle /\ SaIdle /\ SumIdle /\ AsIdle /\ PrIdle /\ StIdle /\ RqIdle /\ ItIdle /\ SrIdle /\ AuIdle /\ RfIdle /\ ClIdle /\ CcIdle

SpecKagiLines == InitKagiLines /\ [][KlNext]_vars

InitStreaming == StInit /\ SseIdle /\ PsIdle /\ SaIdle /\ SumIdle /\ AsIdle /\ PrIdle /\ KlIdle /\ RqIdle /\ ItIdle /\ SrIdle /\ AuIdle /\ RfIdle /\ ClIdle /\ CcIdle

\* the client runs whenever it can; nothing is assumed of the server
SpecStreaming == InitStreaming /\ [][StNext]_vars /\ WF_vars(StClient)

InitRequest == RqInit /\ SseIdle /\ PsIdle /\ SaIdle /\ SumIdle /\ AsIdle /\ PrIdle /\ KlIdle /\ StIdle /\ ItIdle /\ SrIdle /\ AuIdle /\ RfIdle /\ ClIdle /\ CcIdle

SpecRequest == InitRequest /\ [][RqNext]_vars

InitSearchItems == ItInit /\ SseIdle /\ PsIdle /\ SaIdle /\ SumIdle /\ AsIdle /\ PrIdle /\ KlIdle /\ StIdle /\ RqIdle /\ SrIdle /\ AuIdle /\ RfIdle /\ ClIdle /\ CcIdle

SpecSearchItems == InitSearchItems /\ [][ItNext]_vars

InitSearch == SrInit /\ SseIdle /\ PsIdle /\ SaIdle /\ SumIdle /\ AsIdle /\ PrIdle /\ KlIdle /\ StIdle /\ RqIdle /\ ItIdle /\ AuIdle /\ RfIdle /\ ClIdle /\ CcIdle

SpecSearch == InitSearch /\ [][SrNext]_vars

InitAuth == AuInit /\ SseIdle /\ PsIdle /\ SaIdle /\ SumIdle /\ AsIdle /\ PrIdle /\ KlIdle /\ StIdle /\ RqIdle /\ ItIdle /\ SrIdle /\ RfIdle /\ ClIdle /\ CcIdle

SpecAuth == InitAuth /\ [][AuNext]_vars

InitReframe == RfInit /\ SseIdle /\ PsIdle /\ SaIdle /\ SumIdle /\ AsIdle /\ PrIdle /\ KlIdle /\ StIdle /\ RqIdle /\ ItIdle /\ SrIdle /\ AuIdle /\ ClIdle /\ CcIdle

SpecReframe == InitReframe /\ [][RfNext]_vars

InitClassify == ClInit /\ SseIdle /\ PsIdle /\ SaIdle /\ SumIdle /\ AsIdle /\ PrIdle /\ KlIdle /\ StIdle /\ RqIdle /\ ItIdle /\ SrIdle /\ AuIdle /\ RfIdle /\ CcIdle

SpecClassify == InitClassify /\ [][ClNext]_vars

InitConcurrent == CcInit /\ SseIdle /\ PsIdle /\ SaIdle /\ SumIdle /\ AsIdle /\ PrIdle /\ KlIdle /\ StIdle /\ RqIdle /\ ItIdle /\ SrIdle /\ AuIdle /\ RfIdle /\ ClIdle

SpecConcurrent == InitConcurrent /\ [][CcNext]_vars

-----------------------------------------------------------------------------
(* The frames of an SSE text, stated group by group.  A group is the run of  *)
(* lines between two blank lines (or the start of the text and the first     *)
(* blank line).                                                              *)

SseConsumed == Slice(raw_lines, 1, sse_i - 1)

\* the first line of the group that line p closes or belongs to
GroupStart(ls, p) ==
    LET blanks == {q \in 1..(p - 1) : ls[q] = <<>>}
    IN  IF blanks = {} THEN 1 ELSE 1 + CHOOSE q \in blanks : \A r \in blanks : r <= q

\* the values of the lines a..b that carry the prefix, in order
RECURSIVE ValuesOf(_, _, _, _)
ValuesOf(ls, a, b, prefix) ==
    IF a > b THEN <<>>
    ELSE IF startswith(ls[b], prefix)
         THEN Append(ValuesOf(ls, a, b - 1, prefix), FieldValue(ls[b]))
         ELSE ValuesOf(ls, a, b - 1, prefix)

LastOf(vals) == IF vals = <<>> THEN None ELSE vals[Len(vals)]

\* the frame of the group closed by the blank line p
FrameAt(ls, p) ==
    LET a == GroupStart(ls, p)
    IN  SSEEvent(LastOf(ValuesOf(ls, a, p - 1, "event:")),
                 join(ValuesOf(ls, a, p - 1, "data:")),
                 LastOf(ValuesOf(ls, a, p - 1, "id:")))

GroupHasData(ls, p) == ValuesOf(ls, GroupStart(ls, p), p - 1, "data:") # <<>>

\* one frame per blank line among the first n lines whose group has a data line
RECURSIVE FramesUpTo(_, _)
FramesUpTo(ls, n) ==
    IF n = 0 THEN <<>>
    ELSE IF ls[n] = <<>> /\ GroupHasData(ls, n)
         THEN Append(FramesUpTo(ls, n - 1), FrameAt(ls, n))
         ELSE FramesUpTo(ls, n - 1)

\* C9: at each blank line the framer emits the current frame iff the group the
\* blank line closes holds at least one data: line, with data the group's data
\* values joined by newline and event/id the last event:/id: value of the group
\* (None when the group has none); the accumulators then hold only what the
\* lines after that blank line gave, so nothing carries over; frames are in
\* input order.
C9_BlankLineFlushes ==
    sse_pc \in {"loop", "done"} =>
        LET ls == SseConsumed
            open == GroupStart(ls, Len(ls) + 1)
        IN  /\ events = FramesUpTo(ls, Len(ls))
            /\ current_data = ValuesOf(ls, open, Len(ls), "data:")
            /\ current_event = LastOf(ValuesOf(ls, open, Len(ls), "event:"))
            /\ current_id = LastOf(ValuesOf(ls, open, Len(ls), "id:"))

\* a text in which one blank line emitted a frame that carries an event name
\* and a later blank line, closing a group without data, emitted nothing
C9_Witness ==
    /\ sse_pc = "done"
    /\ Len(events) = 1
    /\ events[1].event # None
    /\ raw_lines[1] # <<>>
    /\ Cardinality({p \in 1..Len(raw_lines) : raw_lines[p] = <<>>}) = 2
    /\ current_event = None


\* C10: at end of input the frames are those flushed by the blank lines of the
\* text, a blank line being an empty line that a newline terminates (every
\* element of the split but the last); an accumulation that no such blank
\* line follows, one ending right after its data line's newline included,
\* emits no frame.
C10_TrailingAccumulationDropped ==
    sse_pc = "done" => events = FramesUpTo(raw_lines, Len(raw_lines) - 1)

\* C11: every frame the framer has emitted has non-empty data: no SSEEvent of
\* the output has data equal to the empty string.
C11_NoEmptyData ==
    \A k \in 1..Len(events) : events[k].data # <<>>

\* a comment line, or any other non-empty line without a field prefix
SseIgnored(line) ==
    /\ line # <<>>
    /\ ~startswith(line, "event:")
    /\ ~startswith(line, "data:")
    /\ ~startswith(line, "id:")

SseKept(line) == ~SseIgnored(line)

\* C22: a comment line, or any other non-blank line with none of the prefixes
\* event:, data:, id:, leaves the accumulators unchanged and is no frame
\* boundary: the frames emitted and the accumulators are those of the lines
\* consumed so far with every such line taken out, so that inserting such
\* lines anywhere changes nothing.
C22_IgnoredLinesChangeNothing ==
    sse_pc \in {"loop", "done"} =>
        LET ls == SelectSeq(SseConsumed, SseKept)
            open == GroupStart(ls, Len(ls) + 1)
        IN  /\ events = FramesUpTo(ls, Len(ls))
            /\ current_data = ValuesOf(ls, open, Len(ls), "data:")
            /\ current_event = LastOf(ValuesOf(ls, open, Len(ls), "event:"))
            /\ current_id = LastOf(ValuesOf(ls, open, Len(ls), "id:"))

\* a comment line ahead of the data line of a group, closed by a blank line
\* that emitted the frame of the data line alone
C22_Witness ==
    /\ sse_pc = "done"
    /\ Len(raw_lines) = 3
    /\ raw_lines[1] = <<":">>
    /\ startswith(raw_lines[2], "data:")
    /\ raw_lines[3] = <<>>
    /\ events = <<SSEEvent(None, <<"a">>, None)>>

\* the text after the prefix, with one leading space removed when present
OneSpaceRemoved(line) ==
    LET v == Tail(line)
    IN  IF v # <<>> /\ v[1] = SP THEN Tail(v) ELSE v

\* the values of the data: lines a..b under that rule, in order
RECURSIVE DataValuesOf(_, _, _)
DataValuesOf(ls, a, b) ==
    IF a > b THEN <<>>
    ELSE IF startswith(ls[b], "data:")
         THEN Append(DataValuesOf(ls, a, b - 1), OneSpaceRemoved(ls[b]))
         ELSE DataValuesOf(ls, a, b - 1)

\* C23: the value a data: line contributes is the text after the prefix with
\* exactly one leading space removed when present; further leading whitespace
\* and all trailing whitespace of the line are kept.
C23_OneLeadingSpaceRemoved ==
    sse_pc \in {"loop", "done"} =>
        LET ls == SseConsumed
        IN  current_data = DataValuesOf(ls, GroupStart(ls, Len(ls) + 1), Len(ls))

-----------------------------------------------------------------------------
(* prompt_stream: the snapshots yielded, stated over the delivered lines *)

\* the text of a delivered line that is a tokens.json frame with a decodable
\* payload ("" when the payload has no text), None for every other line
FrameText(line) ==
    LET f == parse_kagi_stream_line(line)
    IN  IF f # NoLine /\ f.tag = <<"tokens.json">> /\ parse_json(f.payload).ok
        THEN Get(parse_json(f.payload).val, "text", <<>>)
        ELSE None

\* the texts of the tokens.json frames among the first n lines, in order
RECURSIVE FrameTexts(_, _)
FrameTexts(lines, n) ==
    IF n = 0 THEN <<>>
    ELSE IF FrameText(lines[n]) # None
         THEN Append(FrameTexts(lines, n - 1), FrameText(lines[n]))
         ELSE FrameTexts(lines, n - 1)

\* a text is kept exactly when it is non-empty and differs from the last kept
RECURSIVE Snapshots(_, _)
Snapshots(texts, n) ==
    IF n = 0 THEN <<>>
    ELSE LET kept == Snapshots(texts, n - 1)
             last == IF kept = <<>> THEN <<>> ELSE kept[Len(kept)]
         IN  IF texts[n] # <<>> /\ texts[n] # last THEN Append(kept, texts[n]) ELSE kept

\* C1: prompt_stream yields a tokens.json frame's text exactly when the text is
\* non-empty and differs from the most recently yielded snapshot; lines with
\* other tags, and lines that are no frame, yield nothing.  The texts
\* ["", A, A, AB] yield exactly [A, AB], and no two consecutive yielded
\* snapshots are equal.
C1_SnapshotsDeduplicated ==
    ps_pc \in {"streaming", "done"} =>
        LET texts == FrameTexts(ps_lines, Len(ps_lines))
        IN  /\ ps_yielded = Snapshots(texts, Len(texts))
            /\ \A k \in 1..(Len(ps_yielded) - 1) : ps_yielded[k] # ps_yielded[k + 1]
            /\ \A k \in 1..Len(ps_yielded) : ps_yielded[k] # <<>>
            /\ texts = <<<<>>, <<"A">>, <<"A">>, <<"A", "B">>>>
                   => ps_yielded = <<<<"A">>, <<"A", "B">>>>

\* the stream of the texts ["", A, A, AB] has been consumed to its end
C1_Witness ==
    /\ ps_pc = "done"
    /\ FrameTexts(ps_lines, Len(ps_lines)) = <<<<>>, <<"A">>, <<"A">>, <<"A", "B">>>>
    /\ ps_yielded = <<<<"A">>, <<"A", "B">>>>

\* a is b with some elements left out, the order kept
RECURSIVE IsSubsequence(_, _)
IsSubsequence(a, b) ==
    IF a = <<>> THEN TRUE
    ELSE IF b = <<>> THEN FALSE
    ELSE IF a[1] = b[1] THEN IsSubsequence(Tail(a), Tail(b))
    ELSE IsSubsequence(a, Tail(b))

\* the positions of the texts that are not empty
NonEmptyTexts(texts) == {k \in 1..Len(texts) : texts[k] # <<>>}

\* C30: when the stream holds a tokens.json frame with a non-empty text, the
\* last snapshot yielded is the text of the last such frame; the snapshots
\* yielded are a subsequence of the frames' texts; when no frame has a
\* non-empty text, nothing is yielded.
C30_ConvergesOnLastText ==
    ps_pc \in {"streaming", "done"} =>
        LET texts == FrameTexts(ps_lines, Len(ps_lines))
            ne == NonEmptyTexts(texts)
        IN  /\ IsSubsequence(ps_yielded, texts)
            /\ ne = {} => ps_yielded = <<>>
            /\ ne # {} =>
                   /\ ps_yielded # <<>>
                   /\ ps_yielded[Len(ps_yielded)] = texts[CHOOSE k \in ne : \A m \in ne : m <= k]

\* a stream whose texts are AB, A and "" in that order, consumed to its end:
\* the last snapshot is A, the text of the last frame with a text
C30_Witness ==
    /\ ps_pc = "done"
    /\ FrameTexts(ps_lines, Len(ps_lines)) = <<<<"A", "B">>, <<"A">>, <<>>>>
    /\ ps_yielded = <<<<"A", "B">>, <<"A">>>>

-----------------------------------------------------------------------------
(* search_all: the pages yielded *)

SaNextBatches == [k \in 1..Len(sa_yielded) |-> sa_yielded[k].info.next_batch]

\* C2: search_all yields the pages in the order the server gave them, fetches
\* on only while the last result's next_batch > 0, and ends right after the
\* first page whose next_batch <= 0 without a further request: when it has
\* ended normally, the n results yielded are the pages up to and including the
\* first with next_batch <= 0 (next_batch 2 then -1: exactly two results).
C2_PaginationStopsAtCursor ==
    sa_pc # "idle" =>
        /\ sa_yielded = [k \in 1..Len(sa_served) |-> SearchResultOf(sa_served[k])]
        /\ \A k \in 1..(Len(sa_yielded) - 1) : SaNextBatches[k] > 0
        /\ sa_pc = "done" =>
               /\ sa_yielded # <<>>
               /\ SaNextBatches[Len(sa_yielded)] <= 0
               /\ Len(sa_requests) = Len(sa_yielded)
        /\ (sa_pc = "yielded" /\ SaNextBatches[Len(sa_yielded)] <= 0) =>
               ~ENABLED SaNextRequest
        /\ (sa_pc = "yielded" /\ SaNextBatches[Len(sa_yielded)] > 0) =>
               ~ENABLED SaFinish
        /\ (sa_pc = "done" /\ Len(sa_yielded) >= 2 /\ SaNextBatches[1] = 2 /\ SaNextBatches[2] = -1)
               => Len(sa_yielded) = 2

\* next_batch 2, then next_batch -1: two results, and search_all has ended
C2_Witness ==
    /\ sa_pc = "done"
    /\ SaNextBatches = <<2, -1>>
    /\ sa_requests = <<NoInt, SomeInt(2)>>

\* the requests sent and not yet answered
SaInFlight ==
    Len(sa_requests) - Len(sa_served) - (IF sa_error = NoError THEN 0 ELSE 1)

\* C28: the first request of search_all carries no batch; every later request
\* carries the next_batch of the result just before it and goes out only once
\* that result has been yielded; at most one request is in flight; no request
\* carries a batch <= 0; once the consumer has stopped, after page k, no
\* request for page k+1 is sent.
C28_PaginationSerialized ==
    /\ sa_requests # <<>> => sa_requests[1] = NoInt
    /\ \A k \in 2..Len(sa_requests) :
           /\ k - 1 <= Len(sa_yielded)
           /\ sa_requests[k] = SomeInt(sa_yielded[k - 1].info.next_batch)
           /\ sa_requests[k][1] > 0
    /\ SaInFlight \in {0, 1}
    /\ SaInFlight = 1 <=> sa_pc = "await"
    /\ sa_pc = "closed" =>
           /\ Len(sa_requests) = Len(sa_yielded)
           /\ ~ENABLED SaNext

\* two pages fetched, the second on the cursor 3 of the first, and the
\* consumer stopped on a second page that names a third
C28_Witness ==
    /\ sa_pc = "closed"
    /\ SaNextBatches = <<3, 2>>
    /\ sa_requests = <<NoInt, SomeInt(3)>>

-----------------------------------------------------------------------------
(* summarize and summarize_stream, stated over the frames of the response *)

SumDecodable(k) == json_loads(sum_lines[k].payload).ok
SumRecord(k) == json_loads(sum_lines[k].payload).val

\* the frames tagged final, and the frames whose status is "completed"
SumFinals == {k \in 1..Len(sum_lines) : sum_lines[k].tag = <<"final">> /\ SumDecodable(k)}
SumCompleted ==
    {k \in 1..Len(sum_lines) :
        /\ SumDecodable(k)
        /\ Get(Get(SumRecord(k), "output_data", EmptyDict), "status", None) = <<"completed">>}

\* summarize has ended on a 200 response
SummarizeEnded == sum_pc \in {"returned", "raised"} /\ sum_error # "APIError"

\* C3: whenever the stream holds a frame tagged final, summarize returns the
\* SummaryResult decoded from that frame, whatever the update frames and the
\* frames of other tags before or after it.
C3_FinalFrameReturned ==
    (SummarizeEnded /\ SumFinals # {}) =>
        /\ sum_pc = "returned"
        /\ \E k \in SumFinals : sum_result = SummaryResult(SumRecord(k))

\* the frame the stated priority selects: a frame tagged final if there is
\* one, else the last frame whose status is "completed", else the last frame
SumSelected(k) ==
    IF SumFinals # {} THEN k \in SumFinals
    ELSE IF SumCompleted # {} THEN k \in SumCompleted /\ \A j \in SumCompleted : j <= k
    ELSE k = Len(sum_lines) /\ SumDecodable(k)

\* C4: summarize builds its result from the frame selected by the priority
\* final-tagged frame, else last frame with status "completed", else last
\* frame of the stream.
C4_SelectionPriority ==
    (SummarizeEnded /\ \E k \in 1..Len(sum_lines) : SumSelected(k)) =>
        /\ sum_pc = "returned"
        /\ \E k \in 1..Len(sum_lines) :
               SumSelected(k) /\ sum_result = SummaryResult(SumRecord(k))

\* the SummaryUpdates of the update and final frames among the first n frames
RECURSIVE SumUpdatesOf(_)
SumUpdatesOf(n) ==
    IF n = 0 THEN <<>>
    ELSE IF sum_lines[n].tag \in {<<"update">>, <<"final">>} /\ SumDecodable(n)
         THEN Append(SumUpdatesOf(n - 1), SummaryUpdate(SumRecord(n)))
         ELSE SumUpdatesOf(n - 1)

\* C5: summarize_stream yields exactly one SummaryUpdate per update or final
\* frame of the stream, in arrival order, the final frame included (stated
\* for the streams whose update and final frames all decode).
C5_OneUpdatePerFrame ==
    (/\ sum_pc \in {"exhausted", "stream_raised"}
     /\ \A k \in 1..Len(sum_lines) :
            sum_lines[k].tag \in {<<"update">>, <<"final">>} => SumDecodable(k)) =>
        /\ sum_pc = "exhausted"
        /\ sum_updates = SumUpdatesOf(Len(sum_lines))

-----------------------------------------------------------------------------
(* The assistant reducer, stated on the frames of the stream. *)

\* the fold ran on a 200 response and has ended
AsFoldEnded ==
    /\ as_pc \in {"returned", "raised"}
    /\ ~(as_error.kind = "APIError" /\ as_error.status_code # 200)

\* the positions of the frames of a tag
AsFramesOf(tag) == {k \in 1..Len(as_lines) : as_lines[k].tag = <<tag>>}

AsDecodable(k) == parse_json(as_lines[k].payload).ok
AsRecord(k) == parse_json(as_lines[k].payload).val

AsLastMessage == CHOOSE k \in AsFramesOf("new_message.json") :
                     \A m \in AsFramesOf("new_message.json") : m <= k

\* C7: when the stream holds a thread record and its last new_message.json
\* frame is a message record, prompt returns the message decoded from that
\* last frame, whatever frames are interleaved.
C7_LastMessageWins ==
    (/\ AsFoldEnded
     /\ \E k \in AsFramesOf("thread.json") : AsDecodable(k)
     /\ AsFramesOf("new_message.json") # {}
     /\ AsDecodable(AsLastMessage)) =>
        /\ as_pc = "returned"
        /\ as_message = AssistantMessage(AsRecord(AsLastMessage))

\* C8: prompt returns a result only when the stream holds a thread.json frame
\* and a new_message.json frame; when either is absent, the call fails.
C8_FailsWithoutThreadOrMessage ==
    /\ as_pc = "returned" =>
           /\ AsFramesOf("thread.json") # {}
           /\ AsFramesOf("new_message.json") # {}
    /\ (/\ AsFoldEnded
        /\ \/ AsFramesOf("thread.json") = {}
           \/ AsFramesOf("new_message.json") = {}) =>
           as_pc = "raised"

\* a stream with a message record and no thread.json frame, folded to its end
\* and refused with APIError(status_code=200)
C8_Witness ==
    /\ as_pc = "raised"
    /\ as_error = Exception("APIError", 200)
    /\ as_i > Len(as_lines)
    /\ AsFramesOf("thread.json") = {}
    /\ \E k \in AsFramesOf("new_message.json") : as_message = AssistantMessage(AsRecord(k))

\* prompt failed after the loop, for want of a thread or a message
AsMissingFrameFailure ==
    /\ as_pc = "raised"
    /\ AsFoldEnded
    /\ as_i > Len(as_lines)

\* the classes of the errors _request raises on a status other than 200
AsHttpFailureKinds == {Exception("APIError", status_code).kind : status_code \in {401, 500}}

\* C26: the failure prompt raises for a missing mandatory frame in a
\* successfully transported response can be told from the failure raised for
\* an HTTP failure by the kind of the error: its class is not one that an
\* HTTP failure raises.
C26_MissingFrameKindDistinct ==
    AsMissingFrameFailure => as_error.kind \notin AsHttpFailureKinds

-----------------------------------------------------------------------------
(* The proofread reducer, stated on the frames of the stream. *)

\* the fold ran on a 200 response and has ended
PrFoldEnded ==
    /\ pr_pc \in {"returned", "raised"}
    /\ pr_error.kind # "APIError"

PrDecodable(k) == json_loads(pr_events[k].data).ok
PrRecord(k) == json_loads(pr_events[k].data).val

\* the positions of the records that hold a key
PrFramesWith(key) ==
    {k \in 1..Len(pr_events) : PrDecodable(k) /\ key \in DOMAIN PrRecord(k)}

PrLast(S) == CHOOSE k \in S : \A m \in S : m <= k

\* the delta values of the first n frames, concatenated in arrival order
RECURSIVE PrDeltas(_)
PrDeltas(n) ==
    IF n = 0 THEN <<>>
    ELSE IF n \in PrFramesWith("delta")
         THEN PrDeltas(n - 1) \o PrRecord(n).delta
         ELSE PrDeltas(n - 1)

\* C6: the proofread result of a stream that holds a record has for text the
\* concatenation of every delta in arrival order, for detected_language the
\* value of the detected_language frame, for analysis the value of the
\* analysis frame; the other frames change nothing.
C6_ProofreadFold ==
    (PrFoldEnded /\ \E k \in 1..Len(pr_events) : PrDecodable(k)) =>
        /\ pr_pc = "returned"
        /\ pr_result.text = PrDeltas(Len(pr_events))
        /\ pr_result.detected_language =
               IF PrFramesWith("detected_language") = {} THEN NoLanguage
               ELSE DetectedLanguage(
                        PrRecord(PrLast(PrFramesWith("detected_language"))).detected_language)
        /\ pr_result.analysis =
               IF PrFramesWith("analysis") = {} THEN NoAnalysis
               ELSE ProofreadAnalysis(PrRecord(PrLast(PrFramesWith("analysis"))).analysis)

\* C21: the proofread reducer fails on a stream that holds no frame
\* parseable as JSON, a stream with no frame at all included; it does not
\* return a ProofreadResult for it.
C21_FailsWithoutJsonFrame ==
    (PrFoldEnded /\ \A k \in 1..Len(pr_events) : ~PrDecodable(k)) => pr_pc = "raised"

\* the first top-level JSON value of the data of frame k
PrFirstValue(k) == parse_json(pr_events[k].data)

\* the delta values of the first n frames, each frame decoded to its first
\* value, concatenated in arrival order
RECURSIVE PrFirstDeltas(_)
PrFirstDeltas(n) ==
    IF n = 0 THEN <<>>
    ELSE IF "delta" \in DOMAIN PrFirstValue(n).val
            /\ "detected_language" \notin DOMAIN PrFirstValue(n).val
         THEN PrFirstDeltas(n - 1) \o PrFirstValue(n).val.delta
         ELSE PrFirstDeltas(n - 1)

\* C25: a frame whose data is one valid JSON value followed by other text is
\* decoded as that value and folded like a clean frame: on a stream whose
\* frames all begin with a valid value the proofread reducer returns, and its
\* text holds the delta of every frame.
C25_TrailingTextIgnored ==
    (PrFoldEnded /\ \A k \in 1..Len(pr_events) : PrFirstValue(k).ok) =>
        /\ pr_pc = "returned"
        /\ pr_result.text = PrFirstDeltas(Len(pr_events))

\* C13: a frame whose payload is not valid JSON does not abort the fold: no
\* JSON-decode error reaches the caller of the proofread reducer, and the
\* frames after it are still folded.
C13_InvalidJsonSkipped ==
    /\ pr_error.kind # "JSONDecodeError"
    /\ pr_pc = "returned" => pr_i = Len(pr_events) + 1

\* C14: every streaming entry point yields the update of a frame once that
\* frame has arrived from the transport, whether or not later frames arrive or
\* the response completes.
C14_YieldOnArrival ==
    \A k \in 1..MaxWire : (Len(st_wire) >= k) ~> (Len(st_yielded) >= k)

\* C15: once a capability call has seen a response whose status is not 2xx,
\* it has failed with an APIError carrying that status code and the raw body,
\* no frame of the body has been parsed or yielded, and one request only has
\* been sent.
C15_NonSuccessStatusRaises ==
    /\ rq_requests <= 1
    /\ (rq_pc \in {"fold", "done", "raised"} /\ rq_status \notin 200..299) =>
           /\ rq_pc = "raised"
           /\ rq_error = APIError(rq_status, rq_body)
           /\ rq_frames = 0
           /\ rq_requests = 1

\* a 404 answer with a body, refused by prompt_stream
C15_Witness ==
    /\ rq_entry = "prompt_stream"
    /\ rq_pc = "raised"
    /\ rq_status = 404
    /\ rq_body # <<>>
    /\ rq_error.status_code = 404
    /\ rq_error.body = rq_body

-----------------------------------------------------------------------------
(* The frames of a proprietary-format text, stated on its lines. *)

\* the first tag line after line p, Len(ls) + 1 when there is none
KlRunEnd(ls, p) ==
    IF \E q \in (p + 1)..Len(ls) : IsTagLine(ls[q])
    THEN CHOOSE q \in (p + 1)..Len(ls) :
             IsTagLine(ls[q]) /\ \A r \in (p + 1)..(q - 1) : ~IsTagLine(ls[r])
    ELSE Len(ls) + 1

\* the lines a..b that are not blank, in order and as they are
RECURSIVE KlNonBlankLines(_, _, _)
KlNonBlankLines(ls, a, b) ==
    IF a > b THEN <<>>
    ELSE IF strip(ls[b]) = <<>> THEN KlNonBlankLines(ls, a, b - 1)
    ELSE Append(KlNonBlankLines(ls, a, b - 1), ls[b])

KlRemainder(ls, p) == TAG_RE_match(ls[p]).payload

\* the frame of the tag line p; keep says whether the remainder is a part
KlFrameOf(ls, p, keep) ==
    [tag |-> TAG_RE_match(ls[p]).tag,
     payload |-> join((IF keep THEN <<KlRemainder(ls, p)>> ELSE <<>>)
                      \o KlNonBlankLines(ls, p + 1, KlRunEnd(ls, p) - 1))]

\* one frame per tag line among the first n lines, the remainder kept when
\* it is non-empty
RECURSIVE KlFramesNonEmpty(_, _)
KlFramesNonEmpty(ls, n) ==
    IF n = 0 THEN <<>>
    ELSE IF IsTagLine(ls[n])
         THEN Append(KlFramesNonEmpty(ls, n - 1),
                     KlFrameOf(ls, n, KlRemainder(ls, n) # <<>>))
         ELSE KlFramesNonEmpty(ls, n - 1)

\* one frame per tag line among the first n lines, the remainder kept when
\* it is not blank
RECURSIVE KlFramesNonBlank(_, _)
KlFramesNonBlank(ls, n) ==
    IF n = 0 THEN <<>>
    ELSE IF IsTagLine(ls[n])
         THEN Append(KlFramesNonBlank(ls, n - 1),
                     KlFrameOf(ls, n, strip(KlRemainder(ls, n)) # <<>>))
         ELSE KlFramesNonBlank(ls, n - 1)

\* C12 as stated: every frame's payload is the tag line's inline remainder,
\* when that remainder is non-empty, followed by the non-blank lines up to the
\* next tag line or the end of input, in order and unmodified; blank lines in
\* the run are skipped and do not end the frame.
C12_PayloadIsRun_NonEmptyRemainder ==
    kl_pc = "done" => kl_lines = KlFramesNonEmpty(kl_raw_lines, Len(kl_raw_lines))

\* C12, amended: the same, the inline remainder being a part of the payload
\* when it is not blank (a remainder of whitespace only is left out, as a
\* blank line is).
C12_PayloadIsRun ==
    kl_pc = "done" => kl_lines = KlFramesNonBlank(kl_raw_lines, Len(kl_raw_lines))

\* a frame with an inline remainder whose run holds a blank line and, after
\* it, a continuation line
C12_Witness ==
    /\ kl_pc = "done"
    /\ \E p \in 1..Len(kl_raw_lines) :
           /\ IsTagLine(kl_raw_lines[p])
           /\ KlRemainder(kl_raw_lines, p) # <<>>
           /\ \E b \in (p + 1)..(KlRunEnd(kl_raw_lines, p) - 1) :
                  /\ kl_raw_lines[b] = <<>>
                  /\ \E c \in (b + 1)..(KlRunEnd(kl_raw_lines, p) - 1) :
                         strip(kl_raw_lines[c]) # <<>>
           /\ Len(kl_lines) = 1
           /\ Len(split(kl_lines[1].payload)) = 2

-----------------------------------------------------------------------------
(* The items of a result markup, stated on the markup. *)

\* the marker at or before position k that is nearest to it, 0 when k comes
\* before every marker
ItBlockOf(html, k) ==
    IF \E m \in 1..k : html[m] = ResultMarker
    THEN CHOOSE m \in 1..k :
             html[m] = ResultMarker /\ \A j \in (m + 1)..k : html[j] # ResultMarker
    ELSE 0

\* the positions of the title links that are the first of their block
ItFirstTitles(html) ==
    {k \in 1..Len(html) :
        /\ html[k] \in DOMAIN TitleLinks
        /\ ItBlockOf(html, k) # 0
        /\ \A j \in ItBlockOf(html, k)..(k - 1) : html[j] \notin DOMAIN TitleLinks}

\* the titles and urls of those links among the first n positions, in order
RECURSIVE ItExpected(_, _)
ItExpected(html, n) ==
    IF n = 0 THEN <<>>
    ELSE IF n \in ItFirstTitles(html)
         THEN Append(ItExpected(html, n - 1), TitleLinks[html[n]])
         ELSE ItExpected(html, n - 1)

\* C20: the items are, in document order, one per block that has a title
\* link, a block running from a result marker to the next marker or the end;
\* a block without a title link gives none, text before the first marker
\* gives none.
C20_OneItemPerTitledBlock ==
    it_pc = "done" =>
        /\ Len(items) = Cardinality({m \in Starts(it_html) :
                                        \E k \in ItFirstTitles(it_html) :
                                            ItBlockOf(it_html, k) = m})
        /\ [k \in 1..Len(items) |-> [url |-> items[k].url, title |-> items[k].title]]
               = ItExpected(it_html, Len(it_html))

\* a title link before the first marker, then a block with a title link next
\* to a block without one: one item, from the block that has the link
C20_Witness ==
    /\ it_pc = "done"
    /\ it_html = <<TitleLink1, ResultMarker, TitleLink2, ResultMarker>>
    /\ Len(items) = 1
    /\ items[1].url = <<"u2">>

-----------------------------------------------------------------------------
(* The search reducer, stated on the items of the stream. *)

\* the fold ran on a 200 response and has ended
SrFoldEnded ==
    /\ sr_pc \in {"returned", "raised"}
    /\ sr_error # "APIError"

\* the items of the first n frames, in arrival order: those of the frames
\* whose data is a JSON array, in array order
RECURSIVE SrItems(_)
SrItems(n) ==
    IF n = 0 THEN <<>>
    ELSE LET data == json_loads(sr_events[n].data)
         IN  IF data.ok /\ IsList(data.val)
             THEN SrItems(n - 1) \o data.val.val
             ELSE SrItems(n - 1)

SrAllItems == SrItems(Len(sr_events))

SrItemsOf(tag) == SelectSeq(SrAllItems, LAMBDA it : it.tag = <<tag>>)

\* C16: the info of the result is decoded from the last search.info item in
\* arrival order, across frames and across the items of one frame; without a
\* search.info item it is share_url="", curr_batch=1, curr_piece=1,
\* next_batch=-1, next_piece=1.
C16_LastInfoWins ==
    SrFoldEnded =>
        /\ sr_pc = "returned"
        /\ LET infos == SrItemsOf("search.info")
           IN  sr_result.info =
                   IF infos = <<>>
                   THEN [share_url |-> <<>>, curr_batch |-> 1, curr_piece |-> 1,
                         next_batch |-> -1, next_piece |-> 1]
                   ELSE SearchInfo(infos[Len(infos)].payload.val)

\* the HTML of a search item
SrHtmlOf(it) ==
    IF it.payload.json_type = "dict" THEN it.payload.val.content ELSE it.payload.val

\* the entries of the data array of a domain_info item, none when the item
\* holds no array
SrDataOf(it) ==
    IF it.payload.json_type = "dict" THEN it.payload.val.data
    ELSE IF json_loads(it.payload.val).ok THEN json_loads(it.payload.val).val.data
    ELSE <<>>

RECURSIVE SrDomainsExpected(_)
SrDomainsExpected(its) ==
    IF its = <<>> THEN <<>>
    ELSE LET data == SrDataOf(its[Len(its)])
         IN  SrDomainsExpected(SubSeq(its, 1, Len(its) - 1))
                 \o [k \in 1..Len(data) |-> DomainInfo(data[k])]

\* C17: search_html is the newline-join of the HTML of every search item in
\* arrival order, and domain_infos holds one record per entry of the data
\* array of every domain_info item, in arrival order, duplicates kept; frames
\* whose data is not a JSON array contribute nothing.
C17_AppendOnly ==
    SrFoldEnded =>
        /\ sr_pc = "returned"
        /\ LET htmls == SrItemsOf("search")
           IN  sr_result.search_html = join([k \in 1..Len(htmls) |-> SrHtmlOf(htmls[k])])
        /\ sr_result.domain_infos = SrDomainsExpected(SrItemsOf("domain_info"))

-----------------------------------------------------------------------------
(* KagiAuth, stated on the cache as the call found it. *)

\* a token was cached when the call began and its exp, in seconds, is
\* strictly after the time of the call, in half seconds
AuFresh == au_at_call # NoToken /\ 2 * au_at_call.exp > au_now

\* C18: get_valid_token returns the cached token without a request iff a
\* token is cached and its exp is strictly after the current time; otherwise
\* it sends exactly one refresh request and, the refresh answered with a
\* token, stores that token in the cache and returns it.
C18_CachedIffFresh ==
    /\ au_refreshes <= 1
    /\ au_pc \notin {"idle", "call"} => (au_refreshes = 0 <=> AuFresh)
    /\ au_pc \in {"got_token", "done"} =>
           IF AuFresh
           THEN /\ au_returned = au_at_call
                /\ token = au_at_call
           ELSE /\ au_refreshes = 1
                /\ token = au_served
                /\ au_returned = au_served

\* a later call that found a token expiring half a second later and
\* returned it without a request
C18_Witness ==
    /\ au_pc = "done"
    /\ au_entry = "get_valid_token"
    /\ au_at_call # NoToken
    /\ 2 * au_at_call.exp = au_now + 1
    /\ au_refreshes = 0
    /\ au_returned = au_at_call

\* C19: when the token endpoint answers a refresh with a failure status, the
\* call fails with AuthError, which is not an APIError, the cached token is
\* as it was, and no proofread request has been sent.
C19_RefreshFailureIsAuthError ==
    (au_pc \in {"got_token", "done", "raised"} /\ au_status \notin {0, 200}) =>
        /\ au_pc = "raised"
        /\ isinstance(au_error, "AuthError")
        /\ ~isinstance(au_error, "APIError")
        /\ token = au_at_call
        /\ au_posts = 0

\* proofread called with an expired token in the cache, the refresh refused
\* with 401
C19_Witness ==
    /\ au_pc = "raised"
    /\ au_entry = "proofread"
    /\ au_status = 401
    /\ au_at_call # NoToken
    /\ token = au_at_call
    /\ au_error = "AuthError"
    /\ au_posts = 0

-----------------------------------------------------------------------------
(* A frame written back and framed again. *)

\* C24: for every SSE text that a blank line terminates and every frame it
\* gives, the frame written back as event:, id: and data: lines (one data:
\* line per newline-separated part) and a blank line, framed again, gives
\* exactly one frame, equal to the first.
C24_ReframeIdempotent ==
    rf_pc = "reframed" => rf_again = <<rf_frames[rf_n]>>

\* the second frame of a text, a frame with a value, written back
\* and framed again
C24_Witness ==
    /\ rf_pc = "reframed"
    /\ Len(rf_frames) = 2
    /\ rf_n = 2
    /\ rf_frames[2].data = <<"a">>
    /\ rf_again # <<>>

-----------------------------------------------------------------------------
(* A line under the two classifiers. *)

\* C27: a line is a frame start iff the tag pattern matches from its first
\* character, so that a line with leading whitespace is never a frame start,
\* and parse_kagi_stream_lines and parse_kagi_stream_line classify every line
\* alike, with the same tag and the same inline payload.
C27_ClassifiersAgree ==
    cl_pc = "done" =>
        /\ startswith(cl_line, SP) => (cl_batch = NoLine /\ cl_single = NoLine)
        /\ cl_single = cl_batch

-----------------------------------------------------------------------------
(* Concurrent calls, each stated on its own response. *)

\* the outcome of the proofread reducer on a stream, run alone: the locals
\* after the first n frames, or the failure of a frame
RECURSIVE PrAlone(_, _)
PrAlone(evs, n) ==
    IF n = 0 THEN [ok |-> TRUE, val |-> PrLocals(NoLanguage, <<>>, NoAnalysis)]
    ELSE LET before == PrAlone(evs, n - 1)
             data == json_loads(evs[n].data)
         IN  IF ~before.ok \/ ~data.ok THEN JSONDecodeError
             ELSE [ok |-> TRUE, val |-> PrPass(before.val, data.val)]

PrAloneResult(evs) ==
    LET loc == PrAlone(evs, Len(evs)).val
    IN  ProofreadResult(loc.detected_language, concat(loc.text_parts), loc.analysis)

\* C29: under every interleaving of concurrent calls on one client, each call
\* returns what it would return alone on its response (and fails on a frame
\* iff it would fail alone), and the cached token, the one state the calls
\* share, is at every moment absent or a token that a successful refresh
\* returned.
C29_CallsIndependent ==
    /\ \A c \in Calls :
           /\ cc_pc[c] = "returned" =>
                  /\ PrAlone(cc_events[c], Len(cc_events[c])).ok
                  /\ cc_result[c] = PrAloneResult(cc_events[c])
           /\ (cc_pc[c] = "raised" /\ cc_error[c].kind = "JSONDecodeError") =>
                  ~PrAlone(cc_events[c], Len(cc_events[c])).ok
    /\ cc_token = NoToken \/ cc_token \in cc_granted

\* two calls in progress on one token, after the clock has moved: the first
\* has returned the text of its frame while the second, served from the cache,
\* has folded its own frame and not yet returned
C29_Witness ==
    /\ cc_pc[1] = "returned"
    /\ cc_result[1].text = <<"Hel">>
    /\ cc_pc[2] = "fold"
    /\ cc_i[2] = 2
    /\ cc_locals[2].text_parts = <<<<"Hel">>>>
    /\ cc_session[1] = cc_session[2]
    /\ cc_granted = {cc_token}
    /\ cc_now > 0

====
